---- MODULE Spec2Model ----
(***************************************************************************)
(* Narration-to-clip segmentation and alignment engine of                  *)
(* automate_shorts.ts, with the backend runner that spawns it              *)
(* (backend/pipeline/index.ts, backend/projects.ts).                       *)
(*                                                                         *)
(* Units.  Every time value is an integer number of ticks, one tick being  *)
(* 0.0001 s, so that a duration can carry a fourth decimal and the         *)
(* 3-decimal rounding of toFixed(3) is a real operation (Round3).  IEEE    *)
(* rounding error of the double additions (about 1e-15 s) is below the     *)
(* tick and is not modelled.                                               *)
(*                                                                         *)
(* Text.  A string is the sequence of its tokens.  A token is a word, a    *)
(* record [id, chars, dot]: id names the word occurrence, chars counts its *)
(* \w characters, dot says that it ends with one of . ! ? ; or it is SP,   *)
(* a run of padding whitespace (leading, trailing or repeated).  Two       *)
(* neighbouring word tokens are separated by whitespace.                   *)
(***************************************************************************)
EXTENDS Integers, Sequences, FiniteSets, TLC

VARIABLES
    tlPc, tlSegments, tlResult,           \* withTimeline: position, argument, returned list
    tlAgain,            \* the list withTimeline returns for tlResult
    daPc, daTotal, daWeights, daResult,   \* distributeDurationsByWeight: position, arguments, returned list
    svPc, svVoiceover, svClipCount, svResult, \* splitVoiceoverByClipCount: position, arguments, returned list
    scPc, scSegments, scResult,           \* segmentToSubChunks: position, argument, returned cues
    alPc,               \* buildAlignmentChecks then ensureAlignmentOrBlock: position
    alArgs,             \* their arguments, with the VIDEO_FORMAT of the process
    alReport,           \* <<report>> once buildAlignmentChecks has returned
    alFile,             \* <<content>> of segment_alignment.json once written
    alThrown,           \* <<error>> once ensureAlignmentOrBlock has thrown
    alOlder,            \* <<report>> once the copy of unnamed/part_000 has returned
    rsPc,               \* regenerateSegmentAudio and its caller: position
    rsSegments,         \* its argument segments
    rsI,                \* i of the loop of 826
    rsRetry,            \* the call of runSegment in progress is the one of 833
    rsPaths,            \* segmentAudioPaths
    rsMeasured,         \* measuredDurations
    rsDisk,             \* audio files this call has created and not deleted
    rsThrown,           \* <<error>> once it has thrown
    rsResult,           \* the list it returned
    rsPersisted,        \* files the caller has written after the call
    rsLog,              \* the i of every speech request issued, in order
    rsInFlight,         \* speech requests issued and not yet settled
    apPc,               \* runProjectAfterScriptApproval: position
    apManual,           \* MANUAL_GROK of the process
    rqPc,               \* POST /:projectId/continue: position of each request
    wsMapBy,            \* the request whose child wrote clip_segment_map.json last, 0 if none
    wsAlignBy,          \* the request whose child wrote segment_alignment.json last, 0 if none
    projStatus,         \* the project document: status
    projRequiredFiles,  \* its requiredFiles
    projErrorMessage,   \* its errorMessage, <<>> when unset
    rnPc,               \* runProjectAssembly / runShortPipeline: position
    rnError,            \* <<error>> the promise of runShortPipeline rejected with
    chPc,               \* the spawned automate_shorts.js: position in step 4
    chEnv,              \* the workspace and script it runs on
    chMode,             \* mode chosen at 1886 / 1937
    chSegments,         \* segments
    chReport,           \* <<alignment>> once buildAlignmentChecks has returned
    chMapFile,          \* <<content>> of clip_segment_map.json once written
    chAlignFile,        \* <<content>> of segment_alignment.json once written
    chThrown,           \* <<error>> once main has thrown
    chExit,             \* exit code, -1 while running
    chDone              \* compositing steps started, in order

tlVars == <<tlPc, tlSegments, tlResult, tlAgain>>
daVars == <<daPc, daTotal, daWeights, daResult>>
svVars == <<svPc, svVoiceover, svClipCount, svResult>>
scVars == <<scPc, scSegments, scResult>>
alVars == <<alPc, alArgs, alReport, alFile, alThrown, alOlder>>
rsVars == <<rsPc, rsSegments, rsI, rsRetry, rsPaths, rsMeasured, rsDisk,
            rsThrown, rsResult, rsPersisted, rsLog, rsInFlight>>
bkVars == <<apPc, apManual, rqPc, wsMapBy, wsAlignBy>>
pureVars == <<tlVars, daVars, svVars, scVars, alVars, rsVars, bkVars>>
projVars == <<projStatus, projRequiredFiles, projErrorMessage>>
rnVars == <<rnPc, rnError>>
chVars == <<chPc, chEnv, chMode, chSegments, chReport, chMapFile, chAlignFile,
            chThrown, chExit, chDone>>
asVars == <<projVars, rnVars, chVars>>
vars == <<pureVars, asVars>>

(***************************************************************************)
(* Bounds of the model.                                                    *)
(***************************************************************************)
MaxSegs == 3            \* longest segment / weight list drawn as an input
MaxWords == 6           \* longest narration drawn as an input of the text splitter
MaxClipCount == 4       \* largest clip count drawn as an input of the text splitter
MaxAlignSegs == 2       \* longest segment list drawn as an input of the validator
MaxScenes == 2          \* most scenes of a script of an assembly attempt
MaxClips == 2           \* longest run clip_0 .. clip_(MaxClips-1) of a workspace
MaxRegenSegs == 2       \* longest segment list handed to regenerateSegmentAudio
MaxRequests == 2        \* POST /:projectId/continue requests on the project

(***************************************************************************)
(* Generic helpers.                                                        *)
(***************************************************************************)
Max(a, b) == IF a >= b THEN a ELSE b
Min(a, b) == IF a <= b THEN a ELSE b
Abs(a) == IF a >= 0 THEN a ELSE -a

RECURSIVE SumSeq(_)
SumSeq(s) == IF s = <<>> THEN 0 ELSE Head(s) + SumSeq(Tail(s))

SeqsUpTo(S, n) == UNION {[1..k -> S] : k \in 0..n}

\* Number(x.toFixed(3)) of a value of x ticks: the nearest multiple of 10
\* ticks, a tie going away from zero.
Round3(x) ==
    IF x >= 0 THEN ((x + 5) \div 10) * 10
    ELSE -((((-x) + 5) \div 10) * 10)

\* Number(v.toFixed(3)) of the non-negative quotient v = num / den ticks.
Round3Frac(num, den) == ((2 * num + 10 * den) \div (20 * den)) * 10

(***************************************************************************)
(* Strings as token sequences.                                             *)
(***************************************************************************)
SP == [id |-> 0, chars |-> 0, dot |-> FALSE]
IsSpace(t) == t.id = 0
Word(i, c, d) == [id |-> i, chars |-> c, dot |-> d]

\* String.prototype.trim
RECURSIVE TrimLeft(_)
TrimLeft(t) ==
    IF t # <<>> /\ IsSpace(Head(t)) THEN TrimLeft(Tail(t)) ELSE t

RECURSIVE TrimRight(_)
TrimRight(t) ==
    IF t # <<>> /\ IsSpace(t[Len(t)]) THEN TrimRight(SubSeq(t, 1, Len(t) - 1)) ELSE t

Trim(t) == TrimRight(TrimLeft(t))

\* text.trim().split(/\s+/).filter(Boolean)
Words(t) == SelectSeq(t, LAMBDA k : ~IsSpace(k))

\* Array.prototype.slice(from, to) on a 0-based array
Slice(s, from, to) == SubSeq(s, from + 1, Min(to, Len(s)))

\* parts.join(' ') of a list of strings
RECURSIVE JoinTexts(_)
JoinTexts(parts) ==
    IF parts = <<>> THEN <<>> ELSE Head(parts) \o JoinTexts(Tail(parts))

\* Math.ceil(a / b) for b > 0
CeilDiv(a, b) == -((-a) \div b)

(***************************************************************************)
(* splitSentences (automate_shorts.ts 359-368).                            *)
(***************************************************************************)
RECURSIVE SplitAfterDots(_, _)
SplitAfterDots(words, acc) ==
    IF words = <<>> THEN (IF acc = <<>> THEN <<>> ELSE <<acc>>)
    ELSE IF Head(words).dot
         THEN <<Append(acc, Head(words))>> \o SplitAfterDots(Tail(words), <<>>)
         ELSE SplitAfterDots(Tail(words), Append(acc, Head(words)))

splitSentences(text) ==
    LET normalized == Words(text)
    IN IF normalized = <<>> THEN <<>> ELSE SplitAfterDots(normalized, <<>>)

(***************************************************************************)
(* splitTextEvenlyByWords (automate_shorts.ts 370-383).                    *)
(***************************************************************************)
RECURSIVE EvenFrom(_, _, _, _)
EvenFrom(words, count, i, cursor) ==
    IF i >= count THEN <<>>
    ELSE LET remainingWords == Len(words) - cursor
             remainingSlots == count - i
             take == Max(1, CeilDiv(remainingWords, remainingSlots))
         IN <<Slice(words, cursor, cursor + take)>>
            \o EvenFrom(words, count, i + 1, cursor + take)

splitTextEvenlyByWords(text, count) ==
    LET words == Words(Trim(text))
    IN IF Len(words) = 0 THEN [i \in 1..count |-> <<>>]
       ELSE EvenFrom(words, count, 0, 0)

(***************************************************************************)
(* splitVoiceoverByClipCount (automate_shorts.ts 385-441).                 *)
(***************************************************************************)
svSentenceWeights(sentences) ==
    [k \in 1..Len(sentences) |-> Len(Words(Trim(sentences[k])))]

\* the inner while loop (408-420): the cursor it stops at.  targetWeight
\* is the quotient tnum / tden.
RECURSIVE svAccumulate(_, _, _, _, _, _)
svAccumulate(weights, tnum, tden, remainingSegments, cursor, runningWeight) ==
    IF cursor >= Len(weights) THEN cursor
    ELSE LET stillNeededForOthers ==
                 (Len(weights) - (cursor + 1)) >= (remainingSegments - 1)
             nextWeight == weights[cursor + 1]
             projected == runningWeight + nextWeight
         IN IF runningWeight > 0 /\ projected * tden > tnum /\ stillNeededForOthers
            THEN cursor
            ELSE IF ~stillNeededForOthers THEN cursor + 1
            ELSE IF projected * tden * 100 >= tnum * 85 THEN cursor + 1
            ELSE svAccumulate(weights, tnum, tden, remainingSegments,
                              cursor + 1, projected)

\* the inner while loop of 424-427
RECURSIVE svPushRest(_, _, _, _)
svPushRest(sentences, clipCount, cursor, segments) ==
    IF Len(segments) < clipCount /\ cursor < Len(sentences)
    THEN svPushRest(sentences, clipCount, cursor + 1,
                    Append(segments, sentences[cursor + 1]))
    ELSE segments

\* the segment pushed when i = clipCount - 1 (403-406)
svFinalSegmentFirstOnly(sentences, cursor) ==
    IF cursor < Len(sentences) THEN Trim(sentences[cursor + 1]) ELSE <<>>

svFinalSegment(sentences, cursor) ==
    Trim(JoinTexts(Slice(sentences, cursor, Len(sentences))))

\* the for loop (399-430): the segments list it leaves
RECURSIVE svLoop(_, _, _, _, _, _, _, _)
svLoop(sentences, weights, tnum, tden, clipCount, i, cursor, segments) ==
    IF i >= clipCount THEN segments
    ELSE IF i = clipCount - 1
         THEN Append(segments, svFinalSegment(sentences, cursor))
    ELSE LET start == cursor
             remainingSegments == clipCount - i
             remainingSentences == Len(sentences) - cursor
             c1 == svAccumulate(weights, tnum, tden, remainingSegments, cursor, 0)
             c2 == IF c1 = start THEN c1 + 1 ELSE c1
             pushed == Append(segments, Trim(JoinTexts(Slice(sentences, start, c2))))
         IN IF remainingSentences <= remainingSegments
            THEN svPushRest(sentences, clipCount, c2, pushed)
            ELSE svLoop(sentences, weights, tnum, tden, clipCount, i + 1, c2, pushed)

svGreedy(sentences, clipCount) ==
    LET sentenceWeights == svSentenceWeights(sentences)
        totalWeight == SumSeq(sentenceWeights)
        \* targetWeight = Math.max(1, totalWeight / clipCount) as tnum / tden
        tnum == IF totalWeight >= clipCount THEN totalWeight ELSE clipCount
        tden == clipCount
    IN svLoop(sentences, sentenceWeights, tnum, tden, clipCount, 0, 0, <<>>)

splitVoiceoverByClipCount(voiceover, clipCount) ==
    IF clipCount <= 0 THEN <<>>
    ELSE LET sentences == splitSentences(voiceover)
         IN IF Len(sentences) = 0 THEN [i \in 1..clipCount |-> <<>>]
            ELSE IF Len(sentences) <= clipCount
                 THEN LET byWords == splitTextEvenlyByWords(voiceover, clipCount)
                      IN [i \in 1..Len(byWords) |-> Trim(byWords[i])]
            ELSE LET segments == svGreedy(sentences, clipCount)
                 IN IF Len(segments) < clipCount
                    THEN LET joined == Trim(JoinTexts(segments))
                             even == splitTextEvenlyByWords(joined, clipCount)
                         IN [i \in 1..Len(even) |-> Trim(even[i])]
                    ELSE IF Len(segments) > clipCount
                    THEN Append(Slice(segments, 0, clipCount - 1),
                                Trim(JoinTexts(Slice(segments, clipCount - 1, Len(segments)))))
                    ELSE segments

(***************************************************************************)
(* JavaScript numbers that may be non-finite (weights, totals).            *)
(***************************************************************************)
Num(n) == [fin |-> TRUE, v |-> n]
NaN == [fin |-> FALSE, v |-> 0]
isFinite(x) == x.fin

(***************************************************************************)
(* withTimeline (automate_shorts.ts 455-473).                              *)
(***************************************************************************)
UNDEFINED == -1         \* an absent optional number (sourceClipDurationSec?)

\* The object built by one iteration of the map callback, cursor being the
\* running sum before the segment.
TimelineEntryDrift(seg, cursor) ==
    [clipIndex |-> seg.clipIndex,
     text |-> seg.text,
     durationSec |-> Round3(seg.durationSec),
     startSec |-> Round3(cursor),
     endSec |-> Round3(cursor) + Round3(seg.durationSec),
     source |-> seg.source,
     sourceClipDurationSec |-> seg.sourceClipDurationSec]

TimelineEntryStale(seg, cursor) ==
    LET stale == IF "startSec" \in DOMAIN seg THEN seg.startSec ELSE 0
    IN [clipIndex |-> seg.clipIndex,
        text |-> seg.text,
        durationSec |-> Round3(seg.durationSec),
        startSec |-> Round3(stale + cursor),
        endSec |-> Round3(stale + cursor + seg.durationSec),
        source |-> seg.source,
        sourceClipDurationSec |-> seg.sourceClipDurationSec]

TimelineEntry(seg, cursor) ==
    [clipIndex |-> seg.clipIndex,
     text |-> seg.text,
     durationSec |-> Round3(seg.durationSec),
     startSec |-> Round3(cursor),
     endSec |-> Round3(cursor + seg.durationSec),
     source |-> seg.source,
     sourceClipDurationSec |-> seg.sourceClipDurationSec]

RECURSIVE TimelineFrom(_, _)
TimelineFrom(segs, cursor) ==
    IF segs = <<>> THEN <<>>
    ELSE <<TimelineEntry(Head(segs), cursor)>>
         \o TimelineFrom(Tail(segs), cursor + Head(segs).durationSec)

withTimeline(segs) == TimelineFrom(segs, 0)

(***************************************************************************)
(* distributeDurationsByWeight (automate_shorts.ts 443-453).               *)
(***************************************************************************)
MIN_SEGMENT_TICKS == 1000     \* the 0.1 of Math.max(0.1, ...)

ddSafeWeightsAbs(weights) ==
    [i \in 1..Len(weights) |->
        IF isFinite(weights[i]) /\ weights[i].v # 0 THEN Abs(weights[i].v) ELSE 1]

ddSafeWeights(weights) ==
    [i \in 1..Len(weights) |->
        IF isFinite(weights[i]) /\ weights[i].v > 0 THEN weights[i].v ELSE 1]

ddRounded(totalSec, weights) ==
    LET safe == ddSafeWeights(weights)
        weightSum == SumSeq(safe)
    IN [i \in 1..Len(weights) |->
           Max(MIN_SEGMENT_TICKS, Round3Frac(safe[i] * totalSec, weightSum))]

ddCorrection(totalSec, weights) ==
    Round3(totalSec - SumSeq(ddRounded(totalSec, weights)))

distributeNoCorrection(total, weights) ==
    IF ~isFinite(total) \/ total.v <= 0 \/ Len(weights) = 0 THEN <<>>
    ELSE ddRounded(total.v, weights)

distributeDurationsByWeight(total, weights) ==
    IF ~isFinite(total) \/ total.v <= 0 \/ Len(weights) = 0 THEN <<>>
    ELSE LET rounded == ddRounded(total.v, weights)
             n == Len(rounded)
             correction == ddCorrection(total.v, weights)
         IN [rounded EXCEPT ![n] =
                Max(MIN_SEGMENT_TICKS, Round3(rounded[n] + correction))]

(***************************************************************************)
(* segmentToSubChunks (automate_shorts.ts 277-279, 492-542).               *)
(***************************************************************************)
MAX_WORDS_PER_CHUNK == 4
MIN_CHUNK_DURATION_SEC == 5000      \* 0.5 s
MAX_SUBTITLE_CHUNKS == 100
MIN_SEG_DUR_TICKS == 100            \* the 0.01 of Math.max(0.01, segEnd - segStart)

\* String.prototype.length of words.join(' ')
StrLen(words) ==
    IF words = <<>> THEN 0
    ELSE SumSeq([i \in 1..Len(words) |->
                    words[i].chars + (IF words[i].dot THEN 1 ELSE 0)])
         + (Len(words) - 1)

\* raw.split(/(?<=[.,!?])\s+|\n+/), each phrase split on whitespace and
\* pushed to wordsAll (510-515): the phrases are whitespace-delimited runs
\* of words, so the flattened stream is the words of raw in order
scWordsAll(raw) == Words(raw)

\* the grouping loop (518-527)
scChunks(words, maxWords) ==
    LET size == Max(1, maxWords)
    IN [c \in 1..CeilDiv(Len(words), size) |->
           SubSeq(words, (c - 1) * size + 1, Min(c * size, Len(words)))]

\* the end time of chunk i (534)
scCueEndNoClamp(isLast, t, segEnd, segDur, chunkLen, totalLen, minDur) ==
    Min(segEnd, t + Max(minDur, (segDur * chunkLen) \div totalLen))

scCueEnd(isLast, t, segEnd, segDur, chunkLen, totalLen, minDur) ==
    IF isLast THEN segEnd
    ELSE Min(segEnd, t + Max(minDur, (segDur * chunkLen) \div totalLen))

\* the timing loop (531-539): the cues pushed for one segment when outLen
\* cues are already out
RECURSIVE scEmit(_, _, _, _, _, _, _, _, _)
scEmit(chunks, i, t, outLen, segEnd, segDur, totalLen, minDur, maxChunks) ==
    IF ~(i < Len(chunks) /\ outLen < maxChunks) THEN <<>>
    ELSE LET isLast == i = Len(chunks) - 1
             start == t
             end == scCueEnd(isLast, t, segEnd, segDur, StrLen(chunks[i + 1]),
                             totalLen, minDur)
         IN IF end > start
            THEN <<[startSec |-> start, endSec |-> end, text |-> chunks[i + 1]]>>
                 \o scEmit(chunks, i + 1, end, outLen + 1, segEnd, segDur,
                           totalLen, minDur, maxChunks)
            ELSE scEmit(chunks, i + 1, end, outLen, segEnd, segDur,
                        totalLen, minDur, maxChunks)

\* a variant that counts the cap within each segment only
scSegmentCuesPerSegment(seg, outLen, maxWords, minDur, maxChunks) ==
    LET raw == Trim(seg.text)
        segStart == seg.startSec
        segEnd == seg.endSec
        segDur == Max(MIN_SEG_DUR_TICKS, segEnd - segStart)
        wordsAll == scWordsAll(raw)
        chunks == scChunks(wordsAll, maxWords)
        lens == [i \in 1..Len(chunks) |-> StrLen(chunks[i])]
        totalLen == IF SumSeq(lens) = 0 THEN 1 ELSE SumSeq(lens)
    IN IF Len(wordsAll) = 0 THEN <<>>
       ELSE scEmit(chunks, 0, segStart, 0, segEnd, segDur, totalLen,
                   minDur, maxChunks)

\* the body of the for loop for one segment that is not skipped (506-539)
scSegmentCues(seg, outLen, maxWords, minDur, maxChunks) ==
    LET raw == Trim(seg.text)
        segStart == seg.startSec
        segEnd == seg.endSec
        segDur == Max(MIN_SEG_DUR_TICKS, segEnd - segStart)
        wordsAll == scWordsAll(raw)
        chunks == scChunks(wordsAll, maxWords)
        lens == [i \in 1..Len(chunks) |-> StrLen(chunks[i])]
        totalLen == IF SumSeq(lens) = 0 THEN 1 ELSE SumSeq(lens)
    IN IF Len(wordsAll) = 0 THEN <<>>
       ELSE scEmit(chunks, 0, segStart, outLen, segEnd, segDur, totalLen,
                   minDur, maxChunks)

RECURSIVE scFrom(_, _, _, _, _, _)
scFrom(segments, k, out, maxWords, minDur, maxChunks) ==
    IF k > Len(segments) THEN out
    ELSE IF Trim(segments[k].text) = <<>>
         THEN scFrom(segments, k + 1, out, maxWords, minDur, maxChunks)
    ELSE IF Len(out) >= maxChunks THEN out
    ELSE scFrom(segments, k + 1,
                out \o scSegmentCues(segments[k], Len(out), maxWords, minDur, maxChunks),
                maxWords, minDur, maxChunks)

segmentToSubChunks(segments, maxWords, minDur, maxChunks) ==
    scFrom(segments, 1, <<>>, maxWords, minDur, maxChunks)

(***************************************************************************)
(* computeCoverageRatio (automate_shorts.ts 475-484).                      *)
(***************************************************************************)
\* lower-case, drop every character that is neither \w nor whitespace,
\* collapse whitespace, trim: the words that keep a character, bare
normalizeForCoverage(text) ==
    LET kept == SelectSeq(text, LAMBDA k : ~IsSpace(k) /\ k.chars > 0)
    IN [i \in 1..Len(kept) |-> Word(kept[i].id, kept[i].chars, FALSE)]

\* Number(v.toFixed(4)) of the quotient v = num / den, den > 0, num >= 0,
\* in units of 0.0001
Round4Frac(num, den) == (2 * num * 10000 + den) \div (2 * den)

\* Number(x.toFixed(4)) of a non-negative value of x hundred-thousandths
\* of a second, in ticks
Round4Fine(x) == (x + 5) \div 10

computeCoverageRatioRaw(fullText, segmentTexts) ==
    LET full == Words(fullText)
        joined == Words(JoinTexts(segmentTexts))
    IN IF full = <<>> THEN <<1, 1>>
       ELSE <<Min(StrLen(joined), StrLen(full)), StrLen(full)>>

\* Math.min(1, joined.length / full.length) as the pair
\* <<numerator, denominator>>
computeCoverageRatio(fullText, segmentTexts) ==
    LET full == normalizeForCoverage(fullText)
        joined == normalizeForCoverage(JoinTexts(segmentTexts))
    IN IF full = <<>> THEN <<1, 1>>
       ELSE <<Min(StrLen(joined), StrLen(full)), StrLen(full)>>

(***************************************************************************)
(* buildAlignmentChecks (automate_shorts.ts 677-729).  mergedAudioSec, the *)
(* duration the probe reports with six decimals, is a number of            *)
(* hundred-thousandths of a second (a tenth of a tick).                    *)
(***************************************************************************)
COVERAGE_MIN == 9800                \* 0.98
DELTA_LIMIT_RELAXED == 12500        \* 1.25 s
DELTA_LIMIT_STRICT == 3500          \* 0.35 s
STRETCH_LIMIT_LONG == 45000         \* 4.5
STRETCH_LIMIT_SHORT == 18000        \* 1.8

VideoFormats == {"short", "5min", "11min"}

\* a reason code; the stretch reason also names a segment and a ratio
Reason(code) == [code |-> code, segment |-> UNDEFINED, ratio |-> 0]
StretchReason(index, ratio) ==
    [code |-> "stretch_ratio_too_high", segment |-> index, ratio |-> ratio]

\* stretchRatios (687-690), each ratio a pair <<numerator, denominator>>
baStretchRatios(segments) ==
    [i \in 1..Len(segments) |->
        LET s == segments[i]
            base == IF s.sourceClipDurationSec # UNDEFINED /\ s.sourceClipDurationSec > 0
                    THEN s.sourceClipDurationSec ELSE s.durationSec
        IN IF base > 0 THEN <<s.durationSec, base>> ELSE <<1, 1>>]

RatLess(a, b) == a[1] * b[2] < b[1] * a[2]
RatEq(a, b) == a[1] * b[2] = b[1] * a[2]

baMaxRatioFirstOnly(ratios, best) ==
    IF ratios # <<>> /\ best[1] * Head(ratios)[2] < Head(ratios)[1] * best[2]
    THEN Head(ratios) ELSE best

\* Math.max(1, ...stretchRatios)
RECURSIVE baMaxRatio(_, _)
baMaxRatio(ratios, best) ==
    IF ratios = <<>> THEN best
    ELSE baMaxRatio(Tail(ratios), IF RatLess(best, Head(ratios)) THEN Head(ratios) ELSE best)

\* stretchRatios.findIndex((r) => r === maxStretchRatioVal), 0-based
baFindIndex(ratios, maxVal) ==
    LET hits == {i \in 1..Len(ratios) : RatEq(ratios[i], maxVal)}
    IN IF hits = {} THEN -1
       ELSE (CHOOSE i \in hits : \A j \in hits : i <= j) - 1

baEmptyCountNonBlank(segments) ==
    Len(SelectSeq(segments, LAMBDA sg : Trim(sg.text) # <<>>))

baEmptyCount(segments) ==
    Len(SelectSeq(segments, LAMBDA sg : Trim(sg.text) = <<>>))

\* the checks as an else-if chain: the first failing check only
baReasonsFirstOnly(mode, format, checks, stretchSegmentIndex) ==
    LET isLongFormat == format = "5min" \/ format = "11min"
        durationDeltaLimit ==
            IF mode = "scene-driven" \/ isLongFormat THEN DELTA_LIMIT_RELAXED
            ELSE DELTA_LIMIT_STRICT
        stretchRatioLimit ==
            IF mode = "clip-driven" /\ isLongFormat THEN STRETCH_LIMIT_LONG
            ELSE STRETCH_LIMIT_SHORT
    IN IF mode = "clip-driven" /\ checks.coverageRatio < COVERAGE_MIN
       THEN <<Reason("coverage_below_threshold")>>
       ELSE IF checks.durationDeltaSec > durationDeltaLimit
       THEN <<Reason("duration_delta_too_high")>>
       ELSE IF checks.emptySegmentCount > 0
       THEN <<Reason("empty_segment_text")>>
       ELSE IF mode = "clip-driven" /\ checks.maxStretchRatio > stretchRatioLimit
       THEN (IF stretchSegmentIndex >= 0
             THEN <<StretchReason(stretchSegmentIndex, checks.maxStretchRatio)>>
             ELSE <<Reason("stretch_ratio_too_high")>>)
       ELSE IF mode = "clip-driven" /\ checks.availableClipCount < checks.requiredClipCount
       THEN <<Reason("insufficient_clip_count_for_context")>>
       ELSE <<>>

baReasons(mode, format, checks, stretchSegmentIndex) ==
    LET isLongFormat == format = "5min" \/ format = "11min"
        durationDeltaLimit ==
            IF mode = "scene-driven" THEN DELTA_LIMIT_RELAXED
            ELSE IF mode = "clip-driven" /\ isLongFormat THEN DELTA_LIMIT_RELAXED
            ELSE DELTA_LIMIT_STRICT
        stretchRatioLimit ==
            IF mode = "clip-driven" /\ isLongFormat THEN STRETCH_LIMIT_LONG
            ELSE STRETCH_LIMIT_SHORT
    IN (IF mode = "clip-driven" /\ checks.coverageRatio < COVERAGE_MIN
        THEN <<Reason("coverage_below_threshold")>> ELSE <<>>)
       \o (IF checks.durationDeltaSec > durationDeltaLimit
           THEN <<Reason("duration_delta_too_high")>> ELSE <<>>)
       \o (IF checks.emptySegmentCount > 0
           THEN <<Reason("empty_segment_text")>> ELSE <<>>)
       \o (IF mode = "clip-driven" /\ checks.maxStretchRatio > stretchRatioLimit
           THEN (IF stretchSegmentIndex >= 0
                 THEN <<StretchReason(stretchSegmentIndex, checks.maxStretchRatio)>>
                 ELSE <<Reason("stretch_ratio_too_high")>>)
           ELSE <<>>)
       \o (IF mode = "clip-driven" /\ checks.availableClipCount < checks.requiredClipCount
           THEN <<Reason("insufficient_clip_count_for_context")>> ELSE <<>>)

buildAlignmentChecks(mode, scriptVoiceover, segments, mergedAudioSec, availableClipCount, requiredClipCount, format) ==
    LET sumDur == SumSeq([i \in 1..Len(segments) |-> segments[i].durationSec])
        emptySegmentCount == baEmptyCount(segments)
        stretchRatios == baStretchRatios(segments)
        maxStretchRatioVal == baMaxRatio(stretchRatios, <<1, 1>>)
        stretchSegmentIndex == baFindIndex(stretchRatios, maxStretchRatioVal)
        coverage == computeCoverageRatio(scriptVoiceover,
                                         [i \in 1..Len(segments) |-> segments[i].text])
        checks ==
            [coverageRatio |-> Round4Frac(coverage[1], coverage[2]),
             durationDeltaSec |-> Round4Fine(Abs(10 * sumDur - mergedAudioSec)),
             emptySegmentCount |-> emptySegmentCount,
             availableClipCount |-> availableClipCount,
             requiredClipCount |-> requiredClipCount,
             maxStretchRatio |-> Round4Frac(maxStretchRatioVal[1], maxStretchRatioVal[2]),
             stretchSegmentIndex |->
                 IF mode = "clip-driven" /\ stretchSegmentIndex >= 0
                 THEN stretchSegmentIndex ELSE UNDEFINED]
        reasons == baReasons(mode, format, checks, stretchSegmentIndex)
    IN [mode |-> mode,
        passed |-> Len(reasons) = 0,
        reasons |-> reasons,
        checks |-> checks,
        segments |-> segments]

(***************************************************************************)
(* The copy of buildAlignmentChecks in src/unnamed/part_000 (316-362), an  *)
(* earlier version of automate_shorts.ts without VIDEO_FORMAT: the checks  *)
(* are computed alike, the limits of the reasons do not depend on the      *)
(* mode or on a format.                                                    *)
(***************************************************************************)
baReasonsOlder(mode, checks, stretchSegmentIndex) ==
    (IF mode = "clip-driven" /\ checks.coverageRatio < COVERAGE_MIN
     THEN <<Reason("coverage_below_threshold")>> ELSE <<>>)
    \o (IF checks.durationDeltaSec > DELTA_LIMIT_STRICT
        THEN <<Reason("duration_delta_too_high")>> ELSE <<>>)
    \o (IF checks.emptySegmentCount > 0
        THEN <<Reason("empty_segment_text")>> ELSE <<>>)
    \o (IF mode = "clip-driven" /\ checks.maxStretchRatio > STRETCH_LIMIT_SHORT
        THEN (IF stretchSegmentIndex >= 0
              THEN <<StretchReason(stretchSegmentIndex, checks.maxStretchRatio)>>
              ELSE <<Reason("stretch_ratio_too_high")>>)
        ELSE <<>>)
    \o (IF mode = "clip-driven" /\ checks.availableClipCount < checks.requiredClipCount
        THEN <<Reason("insufficient_clip_count_for_context")>> ELSE <<>>)

buildAlignmentChecksOlder(mode, scriptVoiceover, segments, mergedAudioSec, availableClipCount, requiredClipCount) ==
    LET sumDur == SumSeq([i \in 1..Len(segments) |-> segments[i].durationSec])
        emptySegmentCount == baEmptyCount(segments)
        stretchRatios == baStretchRatios(segments)
        maxStretchRatioVal == baMaxRatio(stretchRatios, <<1, 1>>)
        stretchSegmentIndex == baFindIndex(stretchRatios, maxStretchRatioVal)
        coverage == computeCoverageRatio(scriptVoiceover,
                                         [i \in 1..Len(segments) |-> segments[i].text])
        checks ==
            [coverageRatio |-> Round4Frac(coverage[1], coverage[2]),
             durationDeltaSec |-> Round4Fine(Abs(10 * sumDur - mergedAudioSec)),
             emptySegmentCount |-> emptySegmentCount,
             availableClipCount |-> availableClipCount,
             requiredClipCount |-> requiredClipCount,
             maxStretchRatio |-> Round4Frac(maxStretchRatioVal[1], maxStretchRatioVal[2]),
             stretchSegmentIndex |->
                 IF mode = "clip-driven" /\ stretchSegmentIndex >= 0
                 THEN stretchSegmentIndex ELSE UNDEFINED]
        reasons == baReasonsOlder(mode, checks, stretchSegmentIndex)
    IN [mode |-> mode,
        passed |-> Len(reasons) = 0,
        reasons |-> reasons,
        checks |-> checks,
        segments |-> segments]

(***************************************************************************)
(* ensureAlignmentOrBlock (automate_shorts.ts 731-758).                    *)
(***************************************************************************)
ClipFile(i) == [name |-> "clip_", index |-> i, ext |-> ".mp4"]

\* hint (739-750): <<>> when undefined
eaHint(report, primaryReason) ==
    IF report.mode = "clip-driven"
    THEN IF primaryReason.code = "stretch_ratio_too_high"
         THEN <<[text |-> "Upload one more clip so clip count matches scene count, or use shorter narration per clip.",
                 n |-> 0, scenes |-> 0]>>
         ELSE IF primaryReason.code = "coverage_below_threshold"
         THEN <<[text |-> "Upload one more clip so clip count matches scene count, or use shorter narration per clip.",
                 n |-> 0, scenes |-> 0]>>
         ELSE IF primaryReason.code = "insufficient_clip_count_for_context"
         THEN <<[text |-> "Upload n more clip(s) so clip count matches scene count (scenes).",
                 n |-> report.checks.requiredClipCount - report.checks.availableClipCount,
                 scenes |-> report.checks.requiredClipCount]>>
         ELSE IF primaryReason.code = "empty_segment_text"
         THEN <<[text |-> "Ensure every scene has voiceover text, or upload clips that match scene count.",
                 n |-> 0, scenes |-> 0]>>
         ELSE <<>>
    ELSE <<>>

eaRequiredCountScenesOnly(report, scenesLength) == scenesLength

eaRequiredCount(report, scenesLength) ==
    Max(scenesLength, report.checks.requiredClipCount)

\* payload (738-756)
eaPayload(report, scenesLength) ==
    LET primaryReason ==
            IF Len(report.reasons) > 0 THEN report.reasons[1]
            ELSE Reason("alignment_check_failed")
    IN [reason |-> primaryReason,
        reasons |-> report.reasons,
        hint |-> eaHint(report, primaryReason),
        requiredFiles |->
            [i \in 1..eaRequiredCount(report, scenesLength) |-> ClipFile(i - 1)]]

\* the Error thrown at 757, <<>> when the function returns; its message is
\* the prefix followed by the JSON text of the payload
eaThrowsNever(report, scenesLength) == <<>>

eaThrows(report, scenesLength) ==
    IF report.passed THEN <<>>
    ELSE <<[prefix |-> "ALIGNMENT_BLOCKED:", payload |-> <<eaPayload(report, scenesLength)>>,
            code |-> 0]>>

(***************************************************************************)
(* Step 4 of main (automate_shorts.ts 1824-2266) on a workspace ws: the    *)
(* files of the project's temp directory and the script loaded from it.    *)
(*   ws.audioExists   audio.mp3 is present                                 *)
(*   ws.clips         the i with a file clip_i.mp4                         *)
(*   ws.images        the i with a file image_i.jpg/.jpeg/.png/.webp       *)
(*   ws.sceneAudio    the i with a file audio_scene_i.mp3                  *)
(*   ws.clipSec       what the duration probe returns for a clip file      *)
(*   ws.fullAudioSec  what the duration probe returns for audio.mp3        *)
(*   ws.script        scriptData: voiceover and scenes                     *)
(*   ws.format        VIDEO_FORMAT of the process                          *)
(*   ws.autoShorten   AUTO_SHORTEN_VOICEOVER of the process                *)
(***************************************************************************)
TARGET_CLIP_SECONDS == 100000       \* 10 s, the default of lines 116-121
SCENE_DURATION_DEFAULT == TARGET_CLIP_SECONDS
SCENE_LOCK_COVERAGE_MIN == 9000     \* the 0.9 of line 1882
STRETCH_THRESHOLD_TENTHS == 15      \* stretchThreshold = 1.5 (1909)

getImagePathForIndex(ws, index) == index \in ws.images

segmentHasClipOrImage(ws, index) ==
    index \in ws.clips \/ getImagePathForIndex(ws, index)

RECURSIVE gcFrom(_, _)
gcFrom(ws, i) ==
    IF segmentHasClipOrImage(ws, i) THEN <<i>> \o gcFrom(ws, i + 1) ELSE <<>>

getContiguousClipIndices(ws) == gcFrom(ws, 0)

hasClipGapsUnchecked(ws) == FALSE

\* the check of 1860-1866: a clip file beyond the contiguous run
hasClipGaps(ws) ==
    LET availableClipIndices == getContiguousClipIndices(ws)
        maxContiguous ==
            IF Len(availableClipIndices) = 0 THEN -1
            ELSE availableClipIndices[Len(availableClipIndices)]
    IN \E idx \in ws.clips : idx > maxContiguous

\* the three process.exit(1) of 1829-1839 and 1863-1866
preflightFails(ws) ==
    \/ ~ws.audioExists
    \/ Len(getContiguousClipIndices(ws)) = 0
    \/ hasClipGaps(ws)

sceneVoiceovers(ws) ==
    [i \in 1..Len(ws.script.scenes) |-> Trim(ws.script.scenes[i].voiceover)]

clipIndicesForAssembly(ws) ==
    LET availableClipIndices == getContiguousClipIndices(ws)
        n == Len(ws.script.scenes)
    IN IF Len(availableClipIndices) >= n
       THEN Slice(availableClipIndices, 0, n)
       ELSE availableClipIndices

canUseSceneLockModeAnyCount(ws) ==
    LET used == clipIndicesForAssembly(ws)
        voiceovers == sceneVoiceovers(ws)
        sceneVoiceoverCoverage == computeCoverageRatio(ws.script.voiceover, voiceovers)
    IN /\ \A i \in 1..Len(voiceovers) : voiceovers[i] # <<>>
       /\ \/ Len(used) > 0 /\ \A k \in 1..Len(used) : used[k] \in ws.sceneAudio
          \/ 10000 * sceneVoiceoverCoverage[1]
                 >= SCENE_LOCK_COVERAGE_MIN * sceneVoiceoverCoverage[2]

canUseSceneLockMode(ws) ==
    LET used == clipIndicesForAssembly(ws)
        voiceovers == sceneVoiceovers(ws)
        hasSceneVoiceovers == \A i \in 1..Len(voiceovers) : voiceovers[i] # <<>>
        hasAllSceneAudioForClipsUsed ==
            Len(used) > 0 /\ \A k \in 1..Len(used) : used[k] \in ws.sceneAudio
        sceneVoiceoverCoverage == computeCoverageRatio(ws.script.voiceover, voiceovers)
    IN /\ Len(used) = Len(ws.script.scenes)
       /\ hasSceneVoiceovers
       /\ \/ hasAllSceneAudioForClipsUsed
          \/ 10000 * sceneVoiceoverCoverage[1]
                 >= SCENE_LOCK_COVERAGE_MIN * sceneVoiceoverCoverage[2]

selectMode(ws) == IF canUseSceneLockMode(ws) THEN "scene-driven" ELSE "clip-driven"

\* regenerateSegmentAudio (802-857) when every synthesis succeeded,
\* measured[i] being the probed duration of audio_scene_(i-1).mp3
regenerateSegmentAudio(segments, measured) ==
    withTimeline([i \in 1..Len(segments) |->
        [clipIndex |-> segments[i].clipIndex,
         text |-> segments[i].text,
         durationSec |-> Max(MIN_SEGMENT_TICKS,
                             IF measured[i] # 0 THEN measured[i]
                             ELSE segments[i].durationSec),
         source |-> segments[i].source,
         sourceClipDurationSec |-> UNDEFINED]])

\* base of the scene-driven branch (1891-1904)
sdBase(ws) ==
    LET used == clipIndicesForAssembly(ws)
        scenes == ws.script.scenes
        voiceovers == sceneVoiceovers(ws)
    IN [k \in 1..Len(used) |->
        LET clipIndex == used[k]
            scene == scenes[clipIndex + 1]
            sceneDur == Max(MIN_SEGMENT_TICKS,
                            IF scene.duration # 0 THEN scene.duration
                            ELSE SCENE_DURATION_DEFAULT)
            imagePath == getImagePathForIndex(ws, clipIndex)
            clipDur == IF imagePath THEN 0
                       ELSE IF clipIndex \in ws.clips THEN ws.clipSec ELSE 0
        IN [clipIndex |-> clipIndex,
            text |-> IF voiceovers[clipIndex + 1] # <<>> THEN voiceovers[clipIndex + 1]
                     ELSE Trim(scene.prompt),
            durationSec |-> sceneDur,
            source |-> "scene-driven",
            sourceClipDurationSec |->
                IF imagePath THEN sceneDur
                ELSE IF clipDur > 0 THEN clipDur ELSE UNDEFINED]]

\* segments.map((seg, idx) => ({...seg, sourceClipDurationSec: base[idx]...}))
sdWithSource(segments, base) ==
    [i \in 1..Len(segments) |->
        [segments[i] EXCEPT !.sourceClipDurationSec = base[i].sourceClipDurationSec]]

\* 1905-1906 and 1931-1932
sdSegments(base, measured) ==
    sdWithSource(regenerateSegmentAudio(withTimeline(base), measured), base)

\* overflowIndices (1910-1916), as positions 1..Len(segments)
sdOverflowIndices(segments, base) ==
    {idx \in 1..Len(segments) :
        LET clipSec == IF base[idx].sourceClipDurationSec # UNDEFINED
                       THEN base[idx].sourceClipDurationSec
                       ELSE TARGET_CLIP_SECONDS
        IN clipSec > 0
           /\ 10 * segments[idx].durationSec > STRETCH_THRESHOLD_TENTHS * clipSec}

\* what shortenVoiceoversToFit (1156-1188) returns for one scene: the reply
\* trimmed when it is a non-blank string, else the text it was given
ShortenChoices(text) == {text, <<Head(text)>>}

\* base after the loop of 1925-1930
sdShortenedBase(base, overflow, shortened) ==
    [i \in 1..Len(base) |->
        IF i \in overflow THEN [base[i] EXCEPT !.text = shortened[i]] ELSE base[i]]

\* segments of the clip-driven branch before synthesis (1938-1952)
cdSegments(ws) ==
    LET availableClipIndices == getContiguousClipIndices(ws)
        clipCount == Len(availableClipIndices)
        narrativeSegments == splitVoiceoverByClipCount(ws.script.voiceover, clipCount)
        weights == [i \in 1..Len(narrativeSegments) |->
                       Num(Max(1, Len(Words(Trim(narrativeSegments[i])))))]
        fallbackDurations ==
            distributeDurationsByWeight(
                Num(IF ws.fullAudioSec > 0 THEN ws.fullAudioSec
                    ELSE clipCount * SCENE_DURATION_DEFAULT),
                weights)
    IN withTimeline([idx \in 1..clipCount |->
           [clipIndex |-> availableClipIndices[idx],
            text |-> IF idx <= Len(narrativeSegments) THEN narrativeSegments[idx]
                     ELSE <<>>,
            durationSec |-> IF idx <= Len(fallbackDurations) THEN fallbackDurations[idx]
                            ELSE SCENE_DURATION_DEFAULT,
            source |-> "clip-driven",
            sourceClipDurationSec |-> UNDEFINED]])

\* 1955-1968: the probed clip durations put on the regenerated segments
cdWithSource(ws, segments) ==
    [i \in 1..Len(segments) |->
        LET seg == segments[i]
            imagePath == getImagePathForIndex(ws, seg.clipIndex)
            raw == IF imagePath THEN 0 ELSE ws.clipSec
        IN [seg EXCEPT !.sourceClipDurationSec =
                IF raw > 0 THEN raw
                ELSE IF imagePath THEN seg.durationSec ELSE UNDEFINED]]

\* the segments of either branch once the synthesis has returned measured
buildSegments(ws, measured) ==
    IF canUseSceneLockMode(ws) THEN sdSegments(sdBase(ws), measured)
    ELSE cdWithSource(ws, regenerateSegmentAudio(cdSegments(ws), measured))

\* number of segments handed to regenerateSegmentAudio
segmentCount(ws) ==
    IF canUseSceneLockMode(ws) THEN Len(clipIndicesForAssembly(ws))
    ELSE Len(getContiguousClipIndices(ws))

\* the map with the number of scenes as its clipCount
segmentMapOfSceneCount(ws, mode, segments, mergedAudioSec) ==
    [mode |-> mode,
     clipCount |-> Len(ws.script.scenes),
     audioDurationSec |->
         Round3(IF mergedAudioSec # 0 THEN mergedAudioSec
                ELSE IF ws.fullAudioSec # 0 THEN ws.fullAudioSec ELSE 0),
     segments |-> segments]

\* the object written by writeSegmentMap at 1981-1986
segmentMapOf(ws, mode, segments, mergedAudioSec) ==
    [mode |-> mode,
     clipCount |-> Len(segments),
     audioDurationSec |->
         Round3(IF mergedAudioSec # 0 THEN mergedAudioSec
                ELSE IF ws.fullAudioSec # 0 THEN ws.fullAudioSec ELSE 0),
     segments |-> segments]

\* writeSegmentAlignment at 736: the content of segment_alignment.json
eaWritesIfPassed(report) == IF report.passed THEN <<report>> ELSE <<>>

eaWrites(report) == <<report>>

\* the segments that get an image-to-video render (1989-1996)
imageSegments(ws, segments) ==
    {i \in 1..Len(segments) : getImagePathForIndex(ws, segments[i].clipIndex)}

\* segmentsWithText.length > 0 (2005-2006)
hasSegmentText(segments) ==
    \E i \in 1..Len(segments) : Trim(segments[i].text) # <<>>

(***************************************************************************)
(* Errors.  The message of an Error is its leading literal, the value      *)
(* serialised after it (<<>> when none) and the number printed in it.      *)
(***************************************************************************)
ErrorOf(prefix, code) == [prefix |-> prefix, payload |-> <<>>, code |-> code]

\* reject(new Error(`automate_shorts.js exited with code ${code}`)) (index.ts 80)
ExitError(code) == ErrorOf("automate_shorts.js exited with code ", code)

\* String.prototype.startsWith on the message of an error
startsWith(error, literal) == error.prefix = literal

\* the update made by the catch of runProjectAssembly (projects.ts 662-689)
catchUpdate(err, requiredFiles) ==
    IF startsWith(err, "ALIGNMENT_BLOCKED:")
    THEN LET parsed == err.payload # <<>>
         IN [status |-> "waiting_for_clips",
             requiredFiles |-> IF parsed THEN err.payload[1].requiredFiles
                               ELSE requiredFiles,
             errorMessage |-> <<[reasons |-> IF parsed THEN err.payload[1].reasons
                                             ELSE <<Reason("alignment_blocked")>>,
                                 message |-> <<>>]>>,
             rethrown |-> FALSE]
    ELSE [status |-> "error",
          requiredFiles |-> requiredFiles,
          errorMessage |-> <<[reasons |-> <<>>, message |-> <<err>>]>>,
          rethrown |-> TRUE]

(***************************************************************************)
(* Inputs of the pure-function specifications.                             *)
(***************************************************************************)
Modes == {"scene-driven", "clip-driven"}

\* durations in ticks, none below the 0.1 s floor of the callers: whole
\* milliseconds, and probed values with a fourth decimal
DurChoices == {1000, 1234, 1235, 20000, 31416}

TimelineInputs(maxLen) == SeqsUpTo(DurChoices, maxLen)

TimelineArg(durs) ==
    [i \in 1..Len(durs) |->
        [clipIndex |-> i - 1, text |-> <<>>, durationSec |-> durs[i],
         source |-> "clip-driven", sourceClipDurationSec |-> UNDEFINED]]

WeightChoices == {Num(-3), Num(-1), Num(0), Num(1), Num(5), Num(20), NaN}
TotalChoices == {NaN, Num(-10), Num(0), Num(1000), Num(3000), Num(10004), Num(100000)}

\* narrations of up to MaxWords words, every pattern of sentence ends, with
\* and without padding whitespace around them
NarrationOf(flags, padded) ==
    LET words == [i \in 1..Len(flags) |-> Word(i, 1, flags[i])]
    IN IF padded THEN <<SP>> \o words \o <<SP>> ELSE words

NarrationInputs(maxWords) ==
    {NarrationOf(f, p) : f \in SeqsUpTo(BOOLEAN, maxWords), p \in BOOLEAN}

\* caption inputs: a timeline of up to MaxSegs segments; segment k has n
\* words (none: whitespace only) of 1 to 3 letters, every fifth ending a
\* sentence, word j of segment k carrying the id SegIdBase * k + j
SegIdBase == 1000
CaptionWordCounts == {0, 5, 9, 140, 200}
CaptionDurChoices == {3000, 600000}

CaptionText(k, n) ==
    IF n = 0 THEN <<SP>>
    ELSE [j \in 1..n |-> Word(SegIdBase * k + j, 1 + (j % 3), j % 5 = 0)]

CaptionArg(counts, durs) ==
    withTimeline([i \in 1..Len(counts) |->
        [clipIndex |-> i - 1, text |-> CaptionText(i, counts[i]),
         durationSec |-> durs[i], source |-> "clip-driven",
         sourceClipDurationSec |-> UNDEFINED]])

CaptionInputs(maxLen) ==
    UNION {{CaptionArg(c, d) : c \in [1..n -> CaptionWordCounts],
                               d \in [1..n -> CaptionDurChoices]} : n \in 0..maxLen}

\* validator inputs
AlignTexts == {<<SP>>, <<Word(1, 4, FALSE)>>, <<Word(1, 4, FALSE), Word(2, 3, TRUE)>>}
AlignDurChoices == {2000, 9000}
AlignSourceChoices == {UNDEFINED, 3000}
AlignVoiceovers == {<<>>, <<Word(1, 4, FALSE), Word(2, 3, TRUE)>>}
AlignMergedChoices == {100000, 240000}

AlignSegmentsOf(texts, durs, srcs) ==
    LET timeline == withTimeline([i \in 1..Len(texts) |->
            [clipIndex |-> i - 1, text |-> texts[i], durationSec |-> durs[i],
             source |-> "clip-driven", sourceClipDurationSec |-> UNDEFINED]])
    IN [i \in 1..Len(texts) |->
           [timeline[i] EXCEPT !.sourceClipDurationSec = srcs[i]]]

AlignSegmentInputs(maxLen) ==
    UNION {{AlignSegmentsOf(t, d, c) : t \in [1..n -> AlignTexts],
                                       d \in [1..n -> AlignDurChoices],
                                       c \in [1..n -> AlignSourceChoices]}
           : n \in 0..maxLen}

AlignBaseArgs(maxLen) ==
    [mode : Modes, format : VideoFormats, scriptVoiceover : AlignVoiceovers,
     segments : AlignSegmentInputs(maxLen), mergedAudioSec : AlignMergedChoices,
     availableClipCount : 1..2, requiredClipCount : 1..2, scenesLength : 1..2]

\* arguments at the thresholds: a narration of 449 characters of which a
\* segment carries 440 (0.97996) or 8, a 4.501 s segment on a 2.5005 s clip
\* (1.80004) or on a 0.3 s clip, and merged audio longer than the segments
\* by 0.35004 s, 0.35006 s, 1.25004 s or 1.25006 s
EdgeVoiceover == <<Word(1, 440, FALSE), Word(2, 8, TRUE)>>
EdgeTexts == {<<Word(1, 440, FALSE)>>, <<Word(2, 8, TRUE)>>}
EdgeDurChoices == {45010}
EdgeSourceChoices == {25005, 3000}
EdgeDeltaChoices == {35004, 35006, 125004, 125006}

AlignEdgeSegments(maxLen) ==
    UNION {{AlignSegmentsOf(t, d, c) : t \in [1..n -> EdgeTexts],
                                       d \in [1..n -> EdgeDurChoices],
                                       c \in [1..n -> EdgeSourceChoices]}
           : n \in 1..maxLen}

AlignEdgeArgs(maxLen) ==
    {[mode |-> m, format |-> f, scriptVoiceover |-> EdgeVoiceover, segments |-> s,
      mergedAudioSec |-> 10 * SumSeq([i \in 1..Len(s) |-> s[i].durationSec]) + e,
      availableClipCount |-> 2, requiredClipCount |-> 2, scenesLength |-> 2]
        : m \in Modes, f \in VideoFormats, s \in AlignEdgeSegments(maxLen),
          e \in EdgeDeltaChoices}

AlignArgs(maxLen) == AlignBaseArgs(maxLen) \cup AlignEdgeArgs(maxLen)

NoArgs ==
    [mode |-> "clip-driven", format |-> "short", scriptVoiceover |-> <<>>,
     segments |-> <<>>, mergedAudioSec |-> 0, availableClipCount |-> 0,
     requiredClipCount |-> 0, scenesLength |-> 0]

\* inputs of an assembly attempt
ClipSecChoices == {10000, 30000}
MeasuredChoices == {0, 20000, 40000}
AudioDriftChoices == {0, 20000}
FullAudioChoices == {40000}
SceneDurationChoices == {30000}
AssemblyFormats == {"short", "5min"}

\* the narration of scene i: 8 characters for scene 1, 9 for scene 2
SceneText(i) == <<Word(10 * i + 1, 4, FALSE), Word(10 * i + 2, 2 + i, TRUE)>>
ScenePrompt(i) == <<Word(10 * i + 5, 5, FALSE)>>
ExtraText == <<Word(901, 4, FALSE), Word(902, 4, FALSE), Word(903, 4, TRUE)>>

\* what the full narration has after the scenes' narration: nothing, one
\* letter (two scenes then carry 18 of its 20 characters) or a sentence
ExtraChoices == {<<>>, <<Word(900, 1, TRUE)>>, ExtraText}

\* a script of Len(spoken) scenes; scene i has a voiceover when spoken[i];
\* the full narration is the scenes' narration followed by extra
ScriptOf(spoken, extra, duration) ==
    [voiceover |-> JoinTexts([i \in 1..Len(spoken) |-> SceneText(i)]) \o extra,
     scenes |-> [i \in 1..Len(spoken) |->
                    [voiceover |-> IF spoken[i] THEN SceneText(i) ELSE <<>>,
                     prompt |-> ScenePrompt(i),
                     duration |-> duration]]]

ScriptInputs(maxScenes) ==
    {ScriptOf(f, x, d) : f \in UNION {[1..n -> BOOLEAN] : n \in 1..maxScenes},
                         x \in ExtraChoices, d \in SceneDurationChoices}

\* the clip files of a workspace: clip_0 .. clip_(k-1), or those and the
\* file after a missing clip_k
ClipSets(maxClips) ==
    {0..(k - 1) : k \in 0..maxClips}
        \cup {(0..(k - 1)) \cup {k + 1} : k \in 0..(maxClips - 1)}

WorkspaceInputs(maxClips, maxScenes) ==
    [audioExists : BOOLEAN,
     clips : ClipSets(maxClips),
     images : {{}, {0}},
     sceneAudio : {{}, 0..(maxClips - 1)},
     clipSec : ClipSecChoices,
     fullAudioSec : FullAudioChoices,
     script : ScriptInputs(maxScenes),
     format : AssemblyFormats,
     autoShorten : BOOLEAN]

NoWorkspace ==
    [audioExists |-> FALSE, clips |-> {}, images |-> {}, sceneAudio |-> {},
     clipSec |-> 0, fullAudioSec |-> 0,
     script |-> [voiceover |-> <<>>, scenes |-> <<>>],
     format |-> "short", autoShorten |-> FALSE]

AssemblyIdle ==
    /\ projStatus = "none" /\ projRequiredFiles = <<>> /\ projErrorMessage = <<>>
    /\ rnPc = "off" /\ rnError = <<>>
    /\ chPc = "off" /\ chEnv = NoWorkspace /\ chMode = "none" /\ chSegments = <<>>
    /\ chReport = <<>> /\ chMapFile = <<>> /\ chAlignFile = <<>>
    /\ chThrown = <<>> /\ chExit = -1 /\ chDone = <<>>

(***************************************************************************)
(* Idle values of each group of variables.                                 *)
(***************************************************************************)
TimelineIdle ==
    tlPc = "off" /\ tlSegments = <<>> /\ tlResult = <<>> /\ tlAgain = <<>>
AllocIdle == daPc = "off" /\ daTotal = NaN /\ daWeights = <<>> /\ daResult = <<>>
SplitIdle == svPc = "off" /\ svVoiceover = <<>> /\ svClipCount = 0 /\ svResult = <<>>
CaptionIdle == scPc = "off" /\ scSegments = <<>> /\ scResult = <<>>
AlignIdle ==
    /\ alPc = "off" /\ alArgs = NoArgs /\ alReport = <<>> /\ alFile = <<>>
    /\ alThrown = <<>> /\ alOlder = <<>>
BackendIdle ==
    apPc = "off" /\ apManual = FALSE /\ rqPc = <<>> /\ wsMapBy = 0 /\ wsAlignBy = 0
RegenIdle ==
    /\ rsPc = "off" /\ rsSegments = <<>> /\ rsI = 0 /\ rsRetry = FALSE
    /\ rsPaths = <<>> /\ rsMeasured = <<>> /\ rsDisk = {} /\ rsThrown = <<>>
    /\ rsResult = <<>> /\ rsPersisted = {}
    /\ rsLog = <<>> /\ rsInFlight = 0

(***************************************************************************)
(* Specification of withTimeline.                                          *)
(***************************************************************************)
InitTimeline ==
    /\ tlPc = "call"
    /\ \E durs \in TimelineInputs(MaxSegs) : tlSegments = TimelineArg(durs)
    /\ tlResult = <<>> /\ tlAgain = <<>>
    /\ AllocIdle /\ SplitIdle /\ CaptionIdle /\ AlignIdle /\ AssemblyIdle /\ RegenIdle /\ BackendIdle

CallWithTimeline ==
    /\ tlPc = "call"
    /\ tlResult' = withTimeline(tlSegments)
    /\ tlPc' = "done"
    /\ UNCHANGED <<tlSegments, tlAgain, daVars, svVars, scVars, alVars, rsVars, bkVars, asVars>>

\* withTimeline on the list it returned
CallWithTimelineAgain ==
    /\ tlPc = "done"
    /\ tlAgain' = withTimeline(tlResult)
    /\ tlPc' = "again"
    /\ UNCHANGED <<tlSegments, tlResult, daVars, svVars, scVars, alVars, rsVars, bkVars, asVars>>

NextTimeline == CallWithTimeline \/ CallWithTimelineAgain

SpecTimeline == InitTimeline /\ [][NextTimeline]_vars

(***************************************************************************)
(* Specification of distributeDurationsByWeight.                           *)
(***************************************************************************)
InitAlloc ==
    /\ daPc = "call"
    /\ daTotal \in TotalChoices
    /\ daWeights \in SeqsUpTo(WeightChoices, MaxSegs)
    /\ daResult = <<>>
    /\ TimelineIdle /\ SplitIdle /\ CaptionIdle /\ AlignIdle /\ AssemblyIdle /\ RegenIdle /\ BackendIdle

CallDistribute ==
    /\ daPc = "call"
    /\ daResult' = distributeDurationsByWeight(daTotal, daWeights)
    /\ daPc' = "done"
    /\ UNCHANGED <<daTotal, daWeights, tlVars, svVars, scVars, alVars, rsVars, bkVars, asVars>>

NextAlloc == CallDistribute

SpecAlloc == InitAlloc /\ [][NextAlloc]_vars

(***************************************************************************)
(* Specification of splitVoiceoverByClipCount.                             *)
(***************************************************************************)
InitSplit ==
    /\ svPc = "call"
    /\ svVoiceover \in NarrationInputs(MaxWords)
    /\ svClipCount \in 0..MaxClipCount
    /\ svResult = <<>>
    /\ TimelineIdle /\ AllocIdle /\ CaptionIdle /\ AlignIdle /\ AssemblyIdle /\ RegenIdle /\ BackendIdle

CallSplitVoiceover ==
    /\ svPc = "call"
    /\ svResult' = splitVoiceoverByClipCount(svVoiceover, svClipCount)
    /\ svPc' = "done"
    /\ UNCHANGED <<svVoiceover, svClipCount, tlVars, daVars, scVars, alVars, rsVars, bkVars, asVars>>

NextSplit == CallSplitVoiceover

SpecSplit == InitSplit /\ [][NextSplit]_vars

(***************************************************************************)
(* Specification of segmentToSubChunks, called as main calls it (2008):    *)
(* with the default options.                                               *)
(***************************************************************************)
InitCaption ==
    /\ scPc = "call"
    /\ scSegments \in CaptionInputs(MaxSegs)
    /\ scResult = <<>>
    /\ TimelineIdle /\ AllocIdle /\ SplitIdle /\ AlignIdle /\ AssemblyIdle /\ RegenIdle /\ BackendIdle

CallSegmentToSubChunks ==
    /\ scPc = "call"
    /\ scResult' = segmentToSubChunks(scSegments, MAX_WORDS_PER_CHUNK,
                                      MIN_CHUNK_DURATION_SEC, MAX_SUBTITLE_CHUNKS)
    /\ scPc' = "done"
    /\ UNCHANGED <<scSegments, tlVars, daVars, svVars, alVars, rsVars, bkVars, asVars>>

NextCaption == CallSegmentToSubChunks

SpecCaption == InitCaption /\ [][NextCaption]_vars

(***************************************************************************)
(* Specification of the validator: buildAlignmentChecks on drawn           *)
(* arguments, then ensureAlignmentOrBlock on the report it returned.       *)
(***************************************************************************)
InitAlign ==
    /\ alPc = "build"
    /\ alArgs \in AlignArgs(MaxAlignSegs)
    /\ alReport = <<>> /\ alFile = <<>> /\ alThrown = <<>> /\ alOlder = <<>>
    /\ TimelineIdle /\ AllocIdle /\ SplitIdle /\ CaptionIdle /\ AssemblyIdle /\ RegenIdle /\ BackendIdle

CallBuildAlignmentChecks ==
    /\ alPc = "build"
    /\ alReport' = <<buildAlignmentChecks(alArgs.mode, alArgs.scriptVoiceover,
                        alArgs.segments, alArgs.mergedAudioSec,
                        alArgs.availableClipCount, alArgs.requiredClipCount,
                        alArgs.format)>>
    /\ alPc' = "ensure"
    /\ UNCHANGED <<alArgs, alFile, alThrown, alOlder,
                   tlVars, daVars, svVars, scVars, rsVars, bkVars, asVars>>

\* ensureAlignmentOrBlock: writeSegmentAlignment, then return or throw
CallEnsureAlignmentOrBlock ==
    /\ alPc = "ensure"
    /\ alFile' = eaWrites(alReport[1])
    /\ alThrown' = eaThrows(alReport[1], alArgs.scenesLength)
    /\ alPc' = IF alThrown' = <<>> THEN "returned" ELSE "thrown"
    /\ UNCHANGED <<alArgs, alReport, alOlder,
                   tlVars, daVars, svVars, scVars, rsVars, bkVars, asVars>>

NextAlign == CallBuildAlignmentChecks \/ CallEnsureAlignmentOrBlock

SpecAlign == InitAlign /\ [][NextAlign]_vars

(***************************************************************************)
(* Specification of the two copies of buildAlignmentChecks: each is called *)
(* on the same drawn arguments.                                            *)
(***************************************************************************)
CallBuildAlignmentChecksOlder ==
    /\ alPc # "off"
    /\ alOlder = <<>>
    /\ alOlder' = <<buildAlignmentChecksOlder(alArgs.mode, alArgs.scriptVoiceover,
                        alArgs.segments, alArgs.mergedAudioSec,
                        alArgs.availableClipCount, alArgs.requiredClipCount)>>
    /\ UNCHANGED <<alPc, alArgs, alReport, alFile, alThrown,
                   tlVars, daVars, svVars, scVars, rsVars, bkVars, asVars>>

NextCopies == CallBuildAlignmentChecks \/ CallBuildAlignmentChecksOlder

SpecCopies == InitAlign /\ [][NextCopies]_vars

(***************************************************************************)
(* Specification of regenerateSegmentAudio (802-857) and of what its       *)
(* caller does with its outcome.  Each await of runSegment (809-825) is a  *)
(* step: the speech request (821), the write of audio_scene_i.mp3 (822)    *)
(* and the duration probe (824) each succeed or reject.  ELEVEN_KEY is set *)
(* (806).  A write that rejects has opened the file (761) or not.          *)
(***************************************************************************)
AudioSceneFile(i) == [name |-> "audio_scene_", index |-> i, ext |-> ".mp3"]

MergedAudioFile == [name |-> "audio", index |-> UNDEFINED, ext |-> ".mp3"]

RegenDurChoices == {20000, 31416}

RegenInputs(maxLen) ==
    {withTimeline(TimelineArg(durs)) :
        durs \in UNION {[1..k -> RegenDurChoices] : k \in 1..maxLen}}

\* the files of segmentAudioPaths
PathSet(paths) == {paths[k] : k \in 1..Len(paths)}

\* the loop of 836-842: unlink every path of segmentAudioPaths
UnlinkPaths(disk, paths) == disk \ PathSet(paths)

InitRegen ==
    /\ rsPc = "generate"
    /\ rsSegments \in RegenInputs(MaxRegenSegs)
    /\ rsI = 0 /\ rsRetry = FALSE
    /\ rsPaths = <<>> /\ rsMeasured = <<>> /\ rsDisk = {} /\ rsThrown = <<>>
    /\ rsResult = <<>> /\ rsPersisted = {}
    /\ rsLog = <<>> /\ rsInFlight = 0
    /\ TimelineIdle /\ AllocIdle /\ SplitIdle /\ CaptionIdle /\ AlignIdle
    /\ AssemblyIdle /\ BackendIdle

\* a runSegment(i) that rejected is called again, however often it did
RunSegmentRejectsRetries(disk) ==
    /\ rsRetry' = TRUE
    /\ rsPc' = "generate"
    /\ rsDisk' = disk
    /\ UNCHANGED rsThrown

\* runSegment(i) rejected, disk being the audio files then present: the
\* catch of 829 calls it again (833), the catch of 834 unlinks the files of
\* segmentAudioPaths and throws (836-843)
RunSegmentRejects(disk) ==
    IF ~rsRetry
    THEN /\ rsRetry' = TRUE
         /\ rsPc' = "generate"
         /\ rsDisk' = disk
         /\ UNCHANGED rsThrown
    ELSE /\ rsDisk' = UnlinkPaths(disk, rsPaths)
         /\ rsThrown' = <<ErrorOf("Segment TTS failed: ", rsI)>>
         /\ rsPc' = "threw"
         /\ UNCHANGED rsRetry

\* 810-821: runSegment(i) builds the payload and calls generateElevenAudio
RunSegmentRequest ==
    /\ rsPc = "generate"
    /\ rsLog' = Append(rsLog, rsI)
    /\ rsInFlight' = rsInFlight + 1
    /\ rsPc' = "awaiting"
    /\ UNCHANGED <<rsSegments, rsI, rsRetry, rsPaths, rsMeasured, rsDisk,
                   rsThrown, rsResult, rsPersisted,
                   tlVars, daVars, svVars, scVars, alVars, bkVars, asVars>>

\* 821: the await of generateElevenAudio(requestPayload) settles
RunSegmentGenerate ==
    /\ rsPc = "awaiting"
    /\ rsInFlight' = rsInFlight - 1
    /\ \/ rsPc' = "write" /\ UNCHANGED <<rsRetry, rsDisk, rsThrown>>
       \/ RunSegmentRejects(rsDisk)
    /\ UNCHANGED <<rsSegments, rsI, rsPaths, rsMeasured, rsResult, rsPersisted, rsLog,
                   tlVars, daVars, svVars, scVars, alVars, bkVars, asVars>>

\* 822-823: await writeAudioFromGeneratedStream, then push the path
RunSegmentWrite ==
    /\ rsPc = "write"
    /\ \/ /\ rsDisk' = rsDisk \cup {AudioSceneFile(rsI)}
          /\ rsPaths' = Append(rsPaths, AudioSceneFile(rsI))
          /\ rsPc' = "probe"
          /\ UNCHANGED <<rsRetry, rsThrown>>
       \/ /\ \E opened \in BOOLEAN :
                RunSegmentRejects(IF opened THEN rsDisk \cup {AudioSceneFile(rsI)}
                                  ELSE rsDisk)
          /\ UNCHANGED rsPaths
    /\ UNCHANGED <<rsSegments, rsI, rsMeasured, rsResult, rsPersisted,
                   rsLog, rsInFlight,
                   tlVars, daVars, svVars, scVars, alVars, bkVars, asVars>>

\* 824: push the probed duration; then the next i of the loop of 826
RunSegmentProbe ==
    /\ rsPc = "probe"
    /\ \/ /\ \E measured \in MeasuredChoices :
                rsMeasured' = Append(rsMeasured, measured)
          /\ rsI' = rsI + 1
          /\ rsRetry' = FALSE
          /\ rsPc' = IF rsI + 1 < Len(rsSegments) THEN "generate" ELSE "concat"
          /\ UNCHANGED <<rsDisk, rsThrown>>
       \/ /\ RunSegmentRejects(rsDisk)
          /\ UNCHANGED <<rsI, rsMeasured>>
    /\ UNCHANGED <<rsSegments, rsPaths, rsResult, rsPersisted,
                   rsLog, rsInFlight,
                   tlVars, daVars, svVars, scVars, alVars, bkVars, asVars>>

\* 847-856: concatenate into audio.mp3 and return the measured timeline;
\* ffmpeg may fail
RegenConcat ==
    /\ rsPc = "concat"
    /\ \/ /\ rsDisk' = rsDisk \cup {MergedAudioFile}
          /\ rsResult' = regenerateSegmentAudio(rsSegments, rsMeasured)
          /\ rsPc' = "returned"
          /\ UNCHANGED rsThrown
       \/ /\ rsThrown' = <<ErrorOf("ffmpeg exited with code ", 1)>>
          /\ rsPc' = "threw"
          /\ UNCHANGED <<rsDisk, rsResult>>
    /\ UNCHANGED <<rsSegments, rsI, rsRetry, rsPaths, rsMeasured, rsPersisted,
                   rsLog, rsInFlight,
                   tlVars, daVars, svVars, scVars, alVars, bkVars, asVars>>

\* main 1972-1986 and ensureAlignmentOrBlock 736 after the call returned:
\* clip_segment_map.json and segment_alignment.json are written
CallerPersists ==
    /\ rsPc = "returned"
    /\ rsPersisted' = {"clip_segment_map.json", "segment_alignment.json"}
    /\ rsPc' = "persisted"
    /\ UNCHANGED <<rsSegments, rsI, rsRetry, rsPaths, rsMeasured, rsDisk,
                   rsThrown, rsResult,
                   rsLog, rsInFlight,
                   tlVars, daVars, svVars, scVars, alVars, bkVars, asVars>>

\* main().catch 2268-2271 after the call threw: log, exit 1
CallerExits ==
    /\ rsPc = "threw"
    /\ rsPc' = "exited"
    /\ UNCHANGED <<rsSegments, rsI, rsRetry, rsPaths, rsMeasured, rsDisk,
                   rsThrown, rsResult, rsPersisted,
                   rsLog, rsInFlight,
                   tlVars, daVars, svVars, scVars, alVars, bkVars, asVars>>

NextRegen ==
    \/ RunSegmentRequest \/ RunSegmentGenerate \/ RunSegmentWrite \/ RunSegmentProbe
    \/ RegenConcat \/ CallerPersists \/ CallerExits

SpecRegen == InitRegen /\ [][NextRegen]_vars

(***************************************************************************)
(* Specification of an assembly attempt.  runProjectAssembly               *)
(* (backend/projects.ts 578-698) awaits runShortPipeline                   *)
(* (backend/pipeline/index.ts 30-135), which spawns automate_shorts.js     *)
(* with RUN_STEP=4 and settles on the exit code of the child; the child    *)
(* runs step 4 of main and ends through main().catch or by returning.      *)
(* Each await of the child is a step; the results of its collaborators     *)
(* (speech synthesis, duration probes, ffmpeg, the metadata request) are   *)
(* drawn where they are awaited.                                           *)
(***************************************************************************)
Init ==
    /\ projStatus \in {"waiting_for_clips", "audio_generated"}
    /\ chEnv \in WorkspaceInputs(MaxClips, MaxScenes)
    /\ projRequiredFiles = [i \in 1..Len(chEnv.script.scenes) |-> ClipFile(i - 1)]
    /\ projErrorMessage = <<>>
    /\ rnPc = "idle" /\ rnError = <<>>
    /\ chPc = "off" /\ chMode = "none" /\ chSegments = <<>>
    /\ chReport = <<>> /\ chMapFile = <<>> /\ chAlignFile = <<>>
    /\ chThrown = <<>> /\ chExit = -1 /\ chDone = <<>>
    /\ TimelineIdle /\ AllocIdle /\ SplitIdle /\ CaptionIdle /\ AlignIdle /\ RegenIdle /\ BackendIdle

\* runProjectAssembly 578-583: the status guard throws before the try
RejectNotWaiting ==
    /\ rnPc = "idle"
    /\ projStatus # "waiting_for_clips"
    /\ rnError' = <<ErrorOf("Project is not waiting for clips. Only projects with status waiting_for_clips can be continued.", 0)>>
    /\ rnPc' = "threw"
    /\ UNCHANGED <<projVars, chVars, pureVars>>

\* runProjectAssembly 585-606 and runShortPipeline 30-76: spawn the child
StartAssembly ==
    /\ rnPc = "idle"
    /\ projStatus = "waiting_for_clips"
    /\ rnPc' = "spawned"
    /\ chPc' = "start"
    /\ UNCHANGED <<projVars, rnError, chEnv, chMode, chSegments, chReport,
                   chMapFile, chAlignFile, chThrown, chExit, chDone, pureVars>>

\* child.on('error', reject) (index.ts 77): the child could not be spawned
OnSpawnError ==
    /\ rnPc = "spawned"
    /\ chPc = "start"
    /\ chPc' = "unspawned"
    /\ rnError' = <<ErrorOf("spawn node ENOENT", 0)>>
    /\ rnPc' = "rejected"
    /\ UNCHANGED <<projVars, chEnv, chMode, chSegments, chReport,
                   chMapFile, chAlignFile, chThrown, chExit, chDone, pureVars>>

\* main 1829-1866: exit 1 without audio.mp3, without clips, or on a gap
ChildPreflight ==
    /\ chPc = "start"
    /\ IF preflightFails(chEnv)
       THEN chExit' = 1 /\ chPc' = "exited"
       ELSE chExit' = chExit /\ chPc' = "segment"
    /\ UNCHANGED <<projVars, rnVars, chEnv, chMode, chSegments, chReport,
                   chMapFile, chAlignFile, chThrown, chDone, pureVars>>

\* main 1867-1916 and 1936-1970: choose the mode, build the segments and
\* synthesize their audio; the synthesis returns measured durations or
\* fails twice on a segment, and regenerateSegmentAudio throws (843)
ChildBuildSegments ==
    /\ chPc = "segment"
    /\ chMode' = selectMode(chEnv)
    /\ \/ /\ \E measured \in [1..segmentCount(chEnv) -> MeasuredChoices] :
                chSegments' = buildSegments(chEnv, measured)
          /\ chPc' = IF /\ chMode' = "scene-driven"
                        /\ chEnv.autoShorten
                        /\ sdOverflowIndices(chSegments', sdBase(chEnv)) # {}
                     THEN "shorten" ELSE "validate"
          /\ UNCHANGED chThrown
       \/ /\ \E i \in 0..(segmentCount(chEnv) - 1) :
                chThrown' = <<ErrorOf("Segment TTS failed: ", i)>>
          /\ chPc' = "fatal"
          /\ UNCHANGED chSegments
    /\ UNCHANGED <<projVars, rnVars, chEnv, chReport, chMapFile, chAlignFile,
                   chExit, chDone, pureVars>>

\* main 1917-1933: shorten the overflowing voiceovers and synthesize again
ChildShortenVoiceover ==
    /\ chPc = "shorten"
    /\ LET base == sdBase(chEnv)
           overflow == sdOverflowIndices(chSegments, base)
       IN \/ /\ \E cut \in BOOLEAN :
                 \E measured \in [1..Len(base) -> MeasuredChoices] :
                   LET shortened == [i \in 1..Len(base) |->
                           IF cut THEN <<Head(base[i].text)>> ELSE base[i].text]
                   IN /\ \A i \in overflow : shortened[i] \in ShortenChoices(base[i].text)
                      /\ chSegments' =
                            sdSegments(sdShortenedBase(base, overflow, shortened), measured)
             /\ chPc' = "validate"
             /\ UNCHANGED chThrown
          \/ /\ chThrown' = <<ErrorOf("OpenAI returned empty response for voiceover shorten", 0)>>
             /\ chPc' = "fatal"
             /\ UNCHANGED chSegments
    /\ UNCHANGED <<projVars, rnVars, chEnv, chMode, chReport, chMapFile,
                   chAlignFile, chExit, chDone, pureVars>>

\* the validation told that every scene has its clip
ChildValidateAllClips ==
    /\ chPc = "validate"
    /\ \E drift \in AudioDriftChoices :
          LET mergedAudioSec ==
                  SumSeq([i \in 1..Len(chSegments) |-> chSegments[i].durationSec]) + drift
          IN /\ chReport' = <<buildAlignmentChecks(chMode, chEnv.script.voiceover,
                                  chSegments, 10 * mergedAudioSec,
                                  Len(chEnv.script.scenes),
                                  Len(chEnv.script.scenes), chEnv.format)>>
             /\ chMapFile' = <<segmentMapOf(chEnv, chMode, chSegments, mergedAudioSec)>>
    /\ chPc' = "ensure"
    /\ UNCHANGED <<projVars, rnVars, chEnv, chMode, chSegments, chAlignFile,
                   chThrown, chExit, chDone, pureVars>>

\* main 1972-1986: probe the merged audio (the segments' total, or more),
\* build the report, write clip_segment_map.json
ChildValidate ==
    /\ chPc = "validate"
    /\ \E drift \in AudioDriftChoices :
          LET mergedAudioSec ==
                  SumSeq([i \in 1..Len(chSegments) |-> chSegments[i].durationSec]) + drift
          IN /\ chReport' = <<buildAlignmentChecks(chMode, chEnv.script.voiceover,
                                  chSegments, 10 * mergedAudioSec,
                                  Len(clipIndicesForAssembly(chEnv)),
                                  Len(chEnv.script.scenes), chEnv.format)>>
             /\ chMapFile' = <<segmentMapOf(chEnv, chMode, chSegments, mergedAudioSec)>>
    /\ chPc' = "ensure"
    /\ UNCHANGED <<projVars, rnVars, chEnv, chMode, chSegments, chAlignFile,
                   chThrown, chExit, chDone, pureVars>>

\* ensureAlignmentOrBlock 736: write segment_alignment.json
ChildWriteAlignment ==
    /\ chPc = "ensure"
    /\ chAlignFile' = eaWrites(chReport[1])
    /\ chPc' = "decide"
    /\ UNCHANGED <<projVars, rnVars, chEnv, chMode, chSegments, chReport,
                   chMapFile, chThrown, chExit, chDone, pureVars>>

\* ensureAlignmentOrBlock 737-757: return, or throw ALIGNMENT_BLOCKED
ChildEnsureAlignmentOrBlock ==
    /\ chPc = "decide"
    /\ chThrown' = eaThrows(chReport[1], Len(chEnv.script.scenes))
    /\ chPc' = IF chThrown' = <<>> THEN "render" ELSE "fatal"
    /\ UNCHANGED <<projVars, rnVars, chEnv, chMode, chSegments, chReport,
                   chMapFile, chAlignFile, chExit, chDone, pureVars>>

\* main 1988-1996: render a video from every image; ffmpeg may fail
ChildRenderImages ==
    /\ chPc = "render"
    /\ IF imageSegments(chEnv, chSegments) = {}
       THEN chPc' = "prepare" /\ UNCHANGED <<chDone, chThrown>>
       ELSE /\ chDone' = Append(chDone, "createVideoFromImageWithZoom")
            /\ \/ chPc' = "prepare" /\ UNCHANGED chThrown
               \/ /\ chThrown' = <<ErrorOf("ffmpeg exited with code ", 1)>>
                  /\ chPc' = "fatal"
    /\ UNCHANGED <<projVars, rnVars, chEnv, chMode, chSegments, chReport,
                   chMapFile, chAlignFile, chExit, pureVars>>

\* main 1998: trim or pad every clip to its segment; ffmpeg may fail
ChildPrepareClips ==
    /\ chPc = "prepare"
    /\ chDone' = Append(chDone, "prepareClipsToTargetDurations")
    /\ \/ chPc' = "captions" /\ UNCHANGED chThrown
       \/ /\ chThrown' = <<ErrorOf("ffmpeg exited with code ", 1)>>
          /\ chPc' = "fatal"
    /\ UNCHANGED <<projVars, rnVars, chEnv, chMode, chSegments, chReport,
                   chMapFile, chAlignFile, chExit, pureVars>>

\* main 2005-2037: captions when a segment has text; a failure is caught
ChildCaptions ==
    /\ chPc = "captions"
    /\ chDone' = IF hasSegmentText(chSegments)
                 THEN Append(chDone, "segmentToSubChunks") ELSE chDone
    /\ chPc' = "mux"
    /\ UNCHANGED <<projVars, rnVars, chEnv, chMode, chSegments, chReport,
                   chMapFile, chAlignFile, chThrown, chExit, pureVars>>

\* main 2060-2258: the final mux; ffmpeg may fail
ChildMux ==
    /\ chPc = "mux"
    /\ chDone' = Append(chDone, "mux")
    /\ \/ chPc' = "meta" /\ UNCHANGED chThrown
       \/ /\ chThrown' = <<ErrorOf("ffmpeg exited with code ", 1)>>
          /\ chPc' = "fatal"
    /\ UNCHANGED <<projVars, rnVars, chEnv, chMode, chSegments, chReport,
                   chMapFile, chAlignFile, chExit, pureVars>>

\* main 2261-2266: metadata, its failure caught; main returns, exit code 0
ChildFinish ==
    /\ chPc = "meta"
    /\ chExit' = 0
    /\ chPc' = "exited"
    /\ UNCHANGED <<projVars, rnVars, chEnv, chMode, chSegments, chReport,
                   chMapFile, chAlignFile, chThrown, chDone, pureVars>>

\* main().catch 2268-2271: log the message on the inherited stdout, exit 1
ChildFatal ==
    /\ chPc = "fatal"
    /\ chExit' = 1
    /\ chPc' = "exited"
    /\ UNCHANGED <<projVars, rnVars, chEnv, chMode, chSegments, chReport,
                   chMapFile, chAlignFile, chThrown, chDone, pureVars>>

\* child.on('exit') (index.ts 78-81): resolve on 0, else reject
OnChildExit ==
    /\ rnPc = "spawned"
    /\ chPc = "exited"
    /\ IF chExit = 0
       THEN rnPc' = "resolved" /\ UNCHANGED rnError
       ELSE rnPc' = "rejected" /\ rnError' = <<ExitError(chExit)>>
    /\ UNCHANGED <<projVars, chVars, pureVars>>

\* runProjectAssembly 608-661: uploads, then status assembly_done
AssemblyDone ==
    /\ rnPc = "resolved"
    /\ projStatus' = "assembly_done"
    /\ projRequiredFiles' = <<>>
    /\ projErrorMessage' = <<>>
    /\ rnPc' = "returned"
    /\ UNCHANGED <<rnError, chVars, pureVars>>

\* runProjectAssembly 662-697: the catch
AssemblyCatch ==
    /\ rnPc = "rejected"
    /\ LET update == catchUpdate(rnError[1], projRequiredFiles)
       IN /\ projStatus' = update.status
          /\ projRequiredFiles' = update.requiredFiles
          /\ projErrorMessage' = update.errorMessage
          /\ rnPc' = IF update.rethrown THEN "threw" ELSE "returned"
    /\ UNCHANGED <<rnError, chVars, pureVars>>

Next ==
    \/ RejectNotWaiting \/ StartAssembly \/ OnSpawnError
    \/ ChildPreflight \/ ChildBuildSegments \/ ChildShortenVoiceover
    \/ ChildValidate \/ ChildWriteAlignment \/ ChildEnsureAlignmentOrBlock
    \/ ChildRenderImages \/ ChildPrepareClips \/ ChildCaptions \/ ChildMux
    \/ ChildFinish \/ ChildFatal
    \/ OnChildExit \/ AssemblyDone \/ AssemblyCatch

Spec == Init /\ [][Next]_vars

(***************************************************************************)
(* Specification of runProjectAfterScriptApproval (backend/projects.ts     *)
(* 465-576) on a project in status script_generated whose script was       *)
(* confirmed: step 2 and step 3 of the pipeline, then runProjectAssembly,  *)
(* whose status guard (578-583) is the action RejectNotWaiting.  Step 3 of *)
(* main (automate_shorts.ts 1763-1821) runs on the workspace chEnv.        *)
(***************************************************************************)
\* allClipsExist (1764)
allClipsExist(ws) ==
    \A i \in 0..(Len(ws.script.scenes) - 1) : segmentHasClipOrImage(ws, i)

ApprovalWorkspaces(maxClips, maxScenes) ==
    {[NoWorkspace EXCEPT !.clips = c, !.images = im, !.script = s] :
        c \in ClipSets(maxClips), im \in {{}, {0}}, s \in ScriptInputs(maxScenes)}

InitApproval ==
    /\ apPc = "step2"
    /\ apManual \in BOOLEAN
    /\ projStatus = "script_generated"
    /\ projRequiredFiles = <<>> /\ projErrorMessage = <<>>
    /\ chEnv \in ApprovalWorkspaces(MaxClips, MaxScenes)
    /\ rnPc = "off" /\ rnError = <<>>
    /\ chPc = "off" /\ chMode = "none" /\ chSegments = <<>>
    /\ chReport = <<>> /\ chMapFile = <<>> /\ chAlignFile = <<>>
    /\ chThrown = <<>> /\ chExit = -1 /\ chDone = <<>>
    /\ rqPc = <<>> /\ wsMapBy = 0 /\ wsAlignBy = 0
    /\ TimelineIdle /\ AllocIdle /\ SplitIdle /\ CaptionIdle /\ AlignIdle /\ RegenIdle

\* 502-535: step 2; on a failure status error and rethrow, else the audio
\* is uploaded and the status becomes audio_generated
ApStep2 ==
    /\ apPc = "step2"
    /\ \/ /\ projStatus' = "error"
          /\ projErrorMessage' = <<[reasons |-> <<>>, message |-> <<ExitError(1)>>]>>
          /\ chEnv' = chEnv
          /\ apPc' = "threw"
       \/ /\ projStatus' = "audio_generated"
          /\ chEnv' = [chEnv EXCEPT !.audioExists = TRUE]
          /\ apPc' = "step3"
          /\ UNCHANGED projErrorMessage
    /\ UNCHANGED <<projRequiredFiles, rnVars, chPc, chMode, chSegments, chReport,
                   chMapFile, chAlignFile, chThrown, chExit, chDone,
                   apManual, rqPc, wsMapBy, wsAlignBy,
                   tlVars, daVars, svVars, scVars, alVars, rsVars>>

\* 538-568 with step 3 of main: with MANUAL_GROK and a scene without clip
\* or image the child writes waiting_for_clips.json and exits 0 (1785-1798);
\* without MANUAL_GROK the missing clips are generated (1811-1815), which
\* may fail; else step 3 completes
ApStep3 ==
    /\ apPc = "step3"
    /\ LET scenes == chEnv.script.scenes
           completes == /\ apPc' = "assemble"
                        /\ UNCHANGED <<projStatus, projRequiredFiles, projErrorMessage>>
           fails == /\ projStatus' = "error"
                    /\ projErrorMessage' = <<[reasons |-> <<>>, message |-> <<ExitError(1)>>]>>
                    /\ apPc' = "threw"
                    /\ UNCHANGED projRequiredFiles
       IN IF allClipsExist(chEnv)
          THEN completes /\ chEnv' = chEnv
          ELSE IF apManual
          THEN /\ projStatus' = "waiting_for_clips"
               /\ projRequiredFiles' = [i \in 1..Len(scenes) |-> ClipFile(i - 1)]
               /\ apPc' = "returned"
               /\ UNCHANGED <<projErrorMessage, chEnv>>
          ELSE \/ /\ completes
                  /\ chEnv' = [chEnv EXCEPT !.clips = @ \cup (0..(Len(scenes) - 1))]
               \/ fails /\ chEnv' = chEnv
    /\ UNCHANGED <<rnVars, chPc, chMode, chSegments, chReport,
                   chMapFile, chAlignFile, chThrown, chExit, chDone,
                   apManual, rqPc, wsMapBy, wsAlignBy,
                   tlVars, daVars, svVars, scVars, alVars, rsVars>>

\* 570-575: upload the clips and call runProjectAssembly
ApCallAssembly ==
    /\ apPc = "assemble"
    /\ rnPc' = "idle"
    /\ apPc' = "assembling"
    /\ UNCHANGED <<projVars, rnError, chVars, apManual, rqPc, wsMapBy, wsAlignBy,
                   tlVars, daVars, svVars, scVars, alVars, rsVars>>

\* 575: what runProjectAssembly threw leaves runProjectAfterScriptApproval;
\* the route logs it (routes/projects.ts 220-226)
ApAssemblyThrew ==
    /\ apPc = "assembling"
    /\ rnPc = "threw"
    /\ apPc' = "threw"
    /\ UNCHANGED <<projVars, rnVars, chVars, apManual, rqPc, wsMapBy, wsAlignBy,
                   tlVars, daVars, svVars, scVars, alVars, rsVars>>

NextApproval ==
    \/ ApStep2 \/ ApStep3 \/ ApCallAssembly \/ RejectNotWaiting \/ ApAssemblyThrew

SpecApproval == InitApproval /\ [][NextApproval]_vars

(***************************************************************************)
(* Specification of POST /:projectId/continue (backend/routes/projects.ts  *)
(* 442-469): MaxRequests requests on one project, each a chain of awaits   *)
(* interleaved with the others' by the event loop.  An assembly child is   *)
(* told by the two files it writes (automate_shorts.ts 1981-1987) and its  *)
(* exit code.                                                              *)
(***************************************************************************)
Requests == 1..MaxRequests

InitContinue ==
    /\ rqPc = [r \in Requests |-> "received"]
    /\ wsMapBy = 0 /\ wsAlignBy = 0
    /\ projStatus \in {"waiting_for_clips", "audio_generated"}
    /\ projRequiredFiles = <<ClipFile(0)>>
    /\ projErrorMessage = <<>>
    /\ apPc = "off" /\ apManual = FALSE
    /\ rnPc = "off" /\ rnError = <<>>
    /\ chPc = "off" /\ chEnv = NoWorkspace /\ chMode = "none" /\ chSegments = <<>>
    /\ chReport = <<>> /\ chMapFile = <<>> /\ chAlignFile = <<>>
    /\ chThrown = <<>> /\ chExit = -1 /\ chDone = <<>>
    /\ TimelineIdle /\ AllocIdle /\ SplitIdle /\ CaptionIdle /\ AlignIdle /\ RegenIdle

\* what a step of a request leaves alone besides the project and rqPc
rqOthers == <<rnVars, chVars, apPc, apManual, tlVars, daVars, svVars, scVars, alVars, rsVars>>

\* routes/projects.ts 445-452: read the project, 400 unless waiting_for_clips
RouteGuard(r) ==
    /\ rqPc[r] = "received"
    /\ rqPc' = [rqPc EXCEPT ![r] = IF projStatus # "waiting_for_clips"
                                   THEN "responded400" ELSE "entered"]
    /\ UNCHANGED <<projVars, wsMapBy, wsAlignBy, rqOthers>>

\* runProjectAssembly 578-583: read the project again, throw unless
\* waiting_for_clips (the route answers 500, 466-468)
AssemblyGuard(r) ==
    /\ rqPc[r] = "entered"
    /\ rqPc' = [rqPc EXCEPT ![r] = IF projStatus # "waiting_for_clips"
                                   THEN "responded500" ELSE "syncing"]
    /\ UNCHANGED <<projVars, wsMapBy, wsAlignBy, rqOthers>>

\* 585-606 and pipeline/index.ts 70-75: the workspace is synced and the
\* child spawned
SpawnChild(r) ==
    /\ rqPc[r] = "syncing"
    /\ rqPc' = [rqPc EXCEPT ![r] = "childStarted"]
    /\ UNCHANGED <<projVars, wsMapBy, wsAlignBy, rqOthers>>

\* the child fails before it writes (exit 1), or writes clip_segment_map.json
ChildWritesMap(r) ==
    /\ rqPc[r] = "childStarted"
    /\ \/ rqPc' = [rqPc EXCEPT ![r] = "exited1"] /\ UNCHANGED wsMapBy
       \/ rqPc' = [rqPc EXCEPT ![r] = "childWroteMap"] /\ wsMapBy' = r
    /\ UNCHANGED <<projVars, wsAlignBy, rqOthers>>

\* the child writes segment_alignment.json, then is blocked or fails
\* (exit 1) or finishes the video (exit 0)
ChildWritesAlignment(r) ==
    /\ rqPc[r] = "childWroteMap"
    /\ wsAlignBy' = r
    /\ \E code \in {0, 1} :
          rqPc' = [rqPc EXCEPT ![r] = IF code = 0 THEN "exited0" ELSE "exited1"]
    /\ UNCHANGED <<projVars, wsMapBy, rqOthers>>

\* runProjectAssembly 608-661 after exit code 0, 662-697 after another
\* (runShortPipeline rejects with ExitError, pipeline/index.ts 78-81)
AssemblySettles(r) ==
    /\ rqPc[r] \in {"exited0", "exited1"}
    /\ IF rqPc[r] = "exited0"
       THEN /\ projStatus' = "assembly_done"
            /\ projRequiredFiles' = <<>>
            /\ projErrorMessage' = <<>>
            /\ rqPc' = [rqPc EXCEPT ![r] = "responded200"]
       ELSE LET update == catchUpdate(ExitError(1), projRequiredFiles)
            IN /\ projStatus' = update.status
               /\ projRequiredFiles' = update.requiredFiles
               /\ projErrorMessage' = update.errorMessage
               /\ rqPc' = [rqPc EXCEPT ![r] = IF update.rethrown THEN "responded500"
                                              ELSE "responded200"]
    /\ UNCHANGED <<wsMapBy, wsAlignBy, rqOthers>>

NextContinue ==
    \E r \in Requests :
        \/ RouteGuard(r) \/ AssemblyGuard(r) \/ SpawnChild(r)
        \/ ChildWritesMap(r) \/ ChildWritesAlignment(r) \/ AssemblySettles(r)

SpecContinue == InitContinue /\ [][NextContinue]_vars

\* the error thrown by main is the one of ensureAlignmentOrBlock
IsBlocked(thrown) == thrown # <<>> /\ thrown[1].prefix = "ALIGNMENT_BLOCKED:"

(***************************************************************************)
(* C1: in every assembly attempt no compositing step (image render,        *)
(* prepareClipsToTargetDurations, captions, mux) starts unless the report  *)
(* of buildAlignmentChecks passed; when the report has a reason,           *)
(* ensureAlignmentOrBlock throws and the attempt ends, with exit code 1,   *)
(* without any compositing step having run.                                *)
(***************************************************************************)
NoCompositingUnlessPassed ==
    /\ (chDone # <<>> \/ chPc \in {"render", "prepare", "captions", "mux", "meta"})
         => (chReport # <<>> /\ chReport[1].passed /\ chReport[1].reasons = <<>>)
    /\ (chReport # <<>> /\ chReport[1].reasons # <<>> /\ chPc \in {"fatal", "exited"})
         => (/\ IsBlocked(chThrown)
             /\ chDone = <<>>
             /\ chPc = "exited" => chExit = 1)

NoCompositingUnlessPassedWitness ==
    /\ chPc = "exited" /\ chExit = 1
    /\ chReport # <<>> /\ ~chReport[1].passed
    /\ IsBlocked(chThrown)
    /\ chDone = <<>>

\* both files hold what the attempt computed
BothFilesWritten ==
    /\ chMapFile # <<>>
    /\ chMapFile[1].segments = chSegments /\ chMapFile[1].mode = chMode
    /\ chAlignFile = chReport

(***************************************************************************)
(* C2: in every assembly attempt that reaches validation, the segment map  *)
(* and the alignment report are on disk once ensureAlignmentOrBlock        *)
(* decides, whether the report passed or not, and they are there before    *)
(* ALIGNMENT_BLOCKED is raised.                                            *)
(***************************************************************************)
ReportAndMapPersisted ==
    /\ chPc \in {"decide", "render", "prepare", "captions", "mux", "meta"}
         => BothFilesWritten
    /\ (chReport # <<>> /\ chPc \in {"fatal", "exited"}) => BothFilesWritten
    /\ IsBlocked(chThrown) => BothFilesWritten

ReportAndMapPersistedWitness ==
    /\ chPc = "fatal"
    /\ IsBlocked(chThrown)
    /\ chMapFile # <<>> /\ chAlignFile # <<>> /\ ~chAlignFile[1].passed

Contiguous(segs) ==
    /\ (Len(segs) > 0 => segs[1].startSec = 0)
    /\ \A i \in 1..(Len(segs) - 1) : segs[i].endSec = segs[i + 1].startSec

TimelineContiguity == tlPc = "done" => Contiguous(tlResult)

TimelineContiguityWitness ==
    /\ tlPc = "done"
    /\ Len(tlResult) >= 3
    /\ \E i \in 1..Len(tlSegments) : tlSegments[i].durationSec % 10 # 0
    /\ tlResult[2].startSec > 0

(***************************************************************************)
(* C5 as stated: the returned durations sum to the total within 0.001 s    *)
(* (10 ticks) for every total > 0 and every non-empty list of weights.     *)
(***************************************************************************)
DurationConservationAlways ==
    (daPc = "done" /\ isFinite(daTotal) /\ daTotal.v > 0 /\ Len(daWeights) > 0)
        => Abs(SumSeq(daResult) - daTotal.v) <= 10

(***************************************************************************)
(* C5 amended: the sum is within 0.001 s of the total whenever the last    *)
(* share plus the rounding correction is not below the 0.1 s floor.        *)
(***************************************************************************)
LastNotRefloored ==
    LET rounded == ddRounded(daTotal.v, daWeights)
    IN rounded[Len(rounded)] + ddCorrection(daTotal.v, daWeights) >= MIN_SEGMENT_TICKS

DurationConservation ==
    (daPc = "done" /\ isFinite(daTotal) /\ daTotal.v > 0 /\ Len(daWeights) > 0
        /\ LastNotRefloored)
        => Abs(SumSeq(daResult) - daTotal.v) <= 10

DurationConservationWitness ==
    /\ daPc = "done" /\ isFinite(daTotal) /\ daTotal.v > 0 /\ Len(daWeights) = 3
    /\ LastNotRefloored
    /\ ddCorrection(daTotal.v, daWeights) # 0
    /\ daResult[1] = MIN_SEGMENT_TICKS
    /\ SumSeq(daResult) = Round3(daTotal.v)

(***************************************************************************)
(* C6: for N >= 1 splitVoiceoverByClipCount returns exactly N segments     *)
(* whose words, read in segment order, are exactly the words of the        *)
(* narration in their order (nothing dropped, duplicated or reordered).    *)
(***************************************************************************)
RECURSIVE WordsOfAll(_)
WordsOfAll(segs) ==
    IF segs = <<>> THEN <<>> ELSE Words(Head(segs)) \o WordsOfAll(Tail(segs))

SplitKeepsEveryWord ==
    (svPc = "done" /\ svClipCount >= 1)
        => /\ Len(svResult) = svClipCount
           /\ WordsOfAll(svResult) = Words(svVoiceover)

SplitKeepsEveryWordWitness ==
    /\ svPc = "done"
    /\ svClipCount = 3
    /\ Len(splitSentences(svVoiceover)) = 5
    /\ Len(Words(svVoiceover)) = 6
    /\ Len(svResult) = 3
    /\ Len(svResult[3]) >= 2

(***************************************************************************)
(* C7: a narration with more sentences than N is split in exactly N        *)
(* segments, none of them empty, that together cover every sentence.       *)
(***************************************************************************)
SplitSegmentsNonEmpty ==
    (svPc = "done" /\ svClipCount >= 1
        /\ Len(splitSentences(svVoiceover)) > svClipCount)
        => /\ Len(svResult) = svClipCount
           /\ \A i \in 1..Len(svResult) : Words(svResult[i]) # <<>>
           /\ WordsOfAll(svResult) = Words(svVoiceover)

(***************************************************************************)
(* C8 as stated: for every segment with non-empty text the cues emitted    *)
(* for it start at its startSec, follow each other without gap or overlap  *)
(* and the last one ends exactly at its endSec.                            *)
(***************************************************************************)
\* the cues of segment k: those whose first word carries an id of segment k
CuesOf(k) == SelectSeq(scResult, LAMBDA c : c.text[1].id \div SegIdBase = k)

CuesSpan(cues, seg) ==
    /\ cues # <<>>
    /\ cues[1].startSec = seg.startSec
    /\ \A i \in 1..Len(cues) : cues[i].endSec > cues[i].startSec
    /\ \A i \in 1..(Len(cues) - 1) : cues[i].endSec = cues[i + 1].startSec
    /\ cues[Len(cues)].endSec = seg.endSec

CapNotReachedBy(k) ==
    Len(segmentToSubChunks(SubSeq(scSegments, 1, k), MAX_WORDS_PER_CHUNK,
                           MIN_CHUNK_DURATION_SEC, MAX_SUBTITLE_CHUNKS))
        < MAX_SUBTITLE_CHUNKS

BlankSegments(segments) ==
    {i \in 1..Len(segments) : Trim(segments[i].text) = <<>>}

HasReason(report, code) ==
    \E i \in 1..Len(report.reasons) : report.reasons[i].code = code

EmptySegmentAlwaysFails ==
    (alReport # <<>> /\ BlankSegments(alArgs.segments) # {})
        => /\ ~alReport[1].passed
           /\ HasReason(alReport[1], "empty_segment_text")
           /\ alReport[1].checks.emptySegmentCount
                  = Cardinality(BlankSegments(alArgs.segments))

EmptySegmentAlwaysFailsWitness ==
    /\ alReport # <<>>
    /\ alArgs.mode = "scene-driven"
    /\ Len(alArgs.segments) = 2
    /\ Cardinality(BlankSegments(alArgs.segments)) = 1
    /\ alReport[1].reasons = <<Reason("empty_segment_text")>>

(***************************************************************************)
(* C10: given a failed report ensureAlignmentOrBlock throws the blocked    *)
(* signal with reason = reasons[0], the whole reasons list and             *)
(* requiredFiles = clip_0.mp4 .. clip_(k-1).mp4 for                        *)
(* k = max(sceneCount, requiredClipCount); given a passed report it        *)
(* throws nothing.                                                         *)
(***************************************************************************)
BlockedPayload ==
    alPc \in {"returned", "thrown"} =>
        IF alReport[1].passed THEN alThrown = <<>> /\ alPc = "returned"
        ELSE /\ alPc = "thrown" /\ Len(alThrown) = 1
             /\ alThrown[1].prefix = "ALIGNMENT_BLOCKED:"
             /\ LET payload == alThrown[1].payload[1]
                    k == IF alArgs.scenesLength >= alArgs.requiredClipCount
                         THEN alArgs.scenesLength ELSE alArgs.requiredClipCount
                IN /\ payload.reason = alReport[1].reasons[1]
                   /\ payload.reasons = alReport[1].reasons
                   /\ Len(payload.requiredFiles) = k
                   /\ \A i \in 1..k :
                          payload.requiredFiles[i]
                              = [name |-> "clip_", index |-> i - 1, ext |-> ".mp4"]

BlockedPayloadWitness ==
    /\ alPc = "thrown"
    /\ alArgs.scenesLength = 1 /\ alArgs.requiredClipCount = 2
    /\ Len(alReport[1].reasons) >= 2
    /\ Len(alThrown[1].payload[1].requiredFiles) = 2

(***************************************************************************)
(* C11: every ALIGNMENT_BLOCKED payload raised by ensureAlignmentOrBlock   *)
(* carries a hint next to its primary reason, in either mode and for       *)
(* every primary reason.                                                   *)
(***************************************************************************)
BlockedCarriesHint ==
    alPc = "thrown" =>
        /\ alThrown[1].payload[1].reason = alReport[1].reasons[1]
        /\ alThrown[1].payload[1].hint # <<>>

\* durationSec / sourceClipDurationSec of a segment as <<numerator,
\* denominator>>, 1 when the source duration is unknown
StretchOf(seg) ==
    IF seg.sourceClipDurationSec = UNDEFINED \/ seg.sourceClipDurationSec <= 0
    THEN <<1, 1>>
    ELSE <<seg.durationSec, seg.sourceClipDurationSec>>

\* the segments (1-based) whose stretch is the largest
MaxStretchAt(segments) ==
    {i \in 1..Len(segments) :
        \A j \in 1..Len(segments) :
            StretchOf(segments[j])[1] * StretchOf(segments[i])[2]
                <= StretchOf(segments[i])[1] * StretchOf(segments[j])[2]}

\* 1.8 for short-form, 4.5 for long-form, in tenths
StretchLimitTenths(format) == IF format \in {"5min", "11min"} THEN 45 ELSE 18

StretchReasonsOf(report) ==
    SelectSeq(report.reasons, LAMBDA r : r.code = "stretch_ratio_too_high")

\* the report names a most stretched segment in one stretch reason when
\* over holds in clip-driven mode, and has no stretch reason otherwise
StretchReported(over) ==
    IF alArgs.mode = "clip-driven" /\ over
    THEN /\ Len(StretchReasonsOf(alReport[1])) = 1
         /\ StretchReasonsOf(alReport[1])[1].segment + 1 \in MaxStretchAt(alArgs.segments)
    ELSE StretchReasonsOf(alReport[1]) = <<>>

(***************************************************************************)
(* C12 as stated: in clip-driven mode the report has a                     *)
(* stretch_ratio_too_high reason exactly when the largest                  *)
(* durationSec / sourceClipDurationSec exceeds 1.8 (short-form) or 4.5     *)
(* (long-form), naming a segment that attains it; in scene-driven mode it  *)
(* never has one.                                                          *)
(***************************************************************************)
StretchReasonExact ==
    alReport # <<>> =>
        StretchReported(
            \E i \in 1..Len(alArgs.segments) :
                10 * StretchOf(alArgs.segments[i])[1]
                    > StretchLimitTenths(alArgs.format) * StretchOf(alArgs.segments[i])[2])

(***************************************************************************)
(* C12 amended: the same with the largest ratio rounded to four decimals   *)
(* before it is compared with the limit.                                   *)
(***************************************************************************)
StretchReasonRounded ==
    alReport # <<>> =>
        StretchReported(
            \E i \in 1..Len(alArgs.segments) :
                /\ StretchOf(alArgs.segments[i])[1] >= StretchOf(alArgs.segments[i])[2]
                /\ Round4Frac(StretchOf(alArgs.segments[i])[1],
                              StretchOf(alArgs.segments[i])[2])
                       > 1000 * StretchLimitTenths(alArgs.format))

StretchReasonRoundedWitness ==
    /\ alReport # <<>>
    /\ alArgs.mode = "clip-driven" /\ alArgs.format = "short"
    /\ Len(alArgs.segments) = 2
    /\ alArgs.segments[1].sourceClipDurationSec = UNDEFINED
    /\ alArgs.segments[2].durationSec = 9000
    /\ alArgs.segments[2].sourceClipDurationSec = 3000
    /\ StretchReasonsOf(alReport[1]) = <<StretchReason(1, 30000)>>

\* the length of a text once normalized for coverage
CoverageChars(text) ==
    LET kept == SelectSeq(text, LAMBDA k : k.id # 0 /\ k.chars > 0)
    IN IF kept = <<>> THEN 0
       ELSE SumSeq([i \in 1..Len(kept) |-> kept[i].chars]) + Len(kept) - 1

JoinedChars ==
    CoverageChars(JoinTexts([i \in 1..Len(alArgs.segments) |-> alArgs.segments[i].text]))

FullChars == CoverageChars(alArgs.scriptVoiceover)

(***************************************************************************)
(* C13 as stated: in clip-driven mode the report has                       *)
(* coverage_below_threshold exactly when the normalized joined segment     *)
(* text length over the normalized narration length, capped at 1, is       *)
(* below 0.98; in scene-driven mode it never has it.                       *)
(***************************************************************************)
CoverageReasonExact ==
    alReport # <<>> =>
        (HasReason(alReport[1], "coverage_below_threshold")
            <=> /\ alArgs.mode = "clip-driven"
                /\ FullChars > 0
                /\ 100 * JoinedChars < 98 * FullChars)

(***************************************************************************)
(* C13 amended: the same with the ratio rounded to four decimals before    *)
(* it is compared with 0.98, that is, a ratio below 0.97995.               *)
(***************************************************************************)
CoverageReasonRounded ==
    alReport # <<>> =>
        (HasReason(alReport[1], "coverage_below_threshold")
            <=> /\ alArgs.mode = "clip-driven"
                /\ FullChars > 0
                /\ 100000 * JoinedChars < 97995 * FullChars)

CoverageReasonRoundedWitness ==
    /\ alReport # <<>>
    /\ alArgs.mode = "clip-driven"
    /\ FullChars = 8 /\ JoinedChars = 4
    /\ alReport[1].checks.coverageRatio = 5000
    /\ alReport[1].reasons[1] = Reason("coverage_below_threshold")

\* the weights with every non-positive or non-finite one replaced by 1
WeightsNormalized(weights) ==
    [i \in 1..Len(weights) |->
        IF weights[i].fin /\ weights[i].v > 0 THEN weights[i] ELSE Num(1)]

(***************************************************************************)
(* C14: for a finite total > 0 distributeDurationsByWeight returns one     *)
(* duration per weight, each at least 0.1 s, and the same list as for the  *)
(* weights with every non-positive or non-finite weight replaced by 1;     *)
(* weights [0, 5, -1] with total 10 give three durations summing to 10.    *)
(***************************************************************************)
WeightsTreatedAsOne ==
    (daPc = "done" /\ isFinite(daTotal) /\ daTotal.v > 0) =>
        /\ Len(daResult) = Len(daWeights)
        /\ \A i \in 1..Len(daResult) : daResult[i] >= 1000
        /\ daResult = distributeDurationsByWeight(daTotal, WeightsNormalized(daWeights))
        /\ (daWeights = <<Num(0), Num(5), Num(-1)>> /\ daTotal = Num(100000))
              => SumSeq(daResult) = 100000

WeightsTreatedAsOneWitness ==
    /\ daPc = "done"
    /\ daTotal = Num(100000)
    /\ daWeights = <<Num(0), Num(5), Num(-1)>>
    /\ daResult = <<14290, 71430, 14280>>

SameDurations ==
    \A i \in 1..Len(tlSegments) : tlResult[i].durationSec = tlSegments[i].durationSec

AvailableCount(ws) ==
    Cardinality({n \in 0..(MaxClips + 1) :
                    \A i \in 0..n : i \in ws.clips \cup ws.images})

\* the clips used for assembly: the first sceneCount of them at most
UsedCount(ws) == Min(AvailableCount(ws), Len(ws.script.scenes))

EverySceneNarrated(ws) ==
    \A i \in 1..Len(ws.script.scenes) : Words(ws.script.scenes[i].voiceover) # <<>>

EveryUsedClipHasAudio(ws) == \A i \in 0..(UsedCount(ws) - 1) : i \in ws.sceneAudio

SceneChars(ws) ==
    CoverageChars(JoinTexts([i \in 1..Len(ws.script.scenes) |->
                                ws.script.scenes[i].voiceover]))

\* the scene narrations cover at least 0.9 of the full narration
ScenesCoverNarration(ws) ==
    \/ CoverageChars(ws.script.voiceover) = 0
    \/ 10 * SceneChars(ws) >= 9 * CoverageChars(ws.script.voiceover)

(***************************************************************************)
(* C16: the assembly step chooses scene-driven exactly when (a) the clips  *)
(* used for assembly number the scene count, (b) every scene has           *)
(* non-empty narration and (c) every used clip index has a per-segment     *)
(* audio file or the scene narrations cover at least 0.9 of the full       *)
(* narration; otherwise it chooses clip-driven; once past the choice the   *)
(* mode is one of the two.                                                 *)
(***************************************************************************)
SceneLockChoice ==
    /\ chMode # "none" =>
          chMode = (IF /\ UsedCount(chEnv) = Len(chEnv.script.scenes)
                       /\ EverySceneNarrated(chEnv)
                       /\ (EveryUsedClipHasAudio(chEnv) \/ ScenesCoverNarration(chEnv))
                    THEN "scene-driven" ELSE "clip-driven")
    /\ chPc \in {"shorten", "validate", "ensure", "decide", "render", "prepare",
                  "captions", "mux", "meta", "fatal"}
          => chMode \in Modes

SceneLockChoiceWitness ==
    /\ chMode = "scene-driven"
    /\ chEnv.sceneAudio = {}
    /\ Len(chEnv.script.scenes) = 2
    /\ chEnv.clips = {0, 1} /\ chEnv.images = {}
    /\ SceneChars(chEnv) = 18 /\ CoverageChars(chEnv.script.voiceover) = 20

\* a clip file lies beyond an index that has neither clip nor image
ClipBeyondGap(ws) ==
    \E idx \in ws.clips : \E g \in 0..(idx - 1) : g \notin ws.clips \cup ws.images

(***************************************************************************)
(* C17: when a clip exists beyond the first gap of clip_0, clip_1, ..,     *)
(* the attempt ends with exit code 1 before the mode is chosen, the text   *)
(* segmented or any audio synthesized, and neither the segment map nor     *)
(* the alignment report is written.                                        *)
(***************************************************************************)
GapAborts ==
    ClipBeyondGap(chEnv) =>
        /\ chPc \in {"off", "start", "unspawned", "exited"}
        /\ chPc = "exited" => chExit = 1
        /\ chMode = "none" /\ chSegments = <<>> /\ chThrown = <<>>
        /\ chReport = <<>> /\ chMapFile = <<>> /\ chAlignFile = <<>>

GapAbortsWitness ==
    /\ chPc = "exited" /\ chExit = 1
    /\ chEnv.audioExists
    /\ chEnv.clips = {0, 2} /\ chEnv.images = {}
    /\ chMapFile = <<>> /\ chAlignFile = <<>>

(***************************************************************************)
(* C18.  When a segment's synthesis fails on its first attempt and on its  *)
(* retry, regenerateSegmentAudio throws, every audio file it wrote has     *)
(* been deleted, and the caller persists neither the segment map nor the   *)
(* alignment report.                                                       *)
(***************************************************************************)
SynthesisFailedTwice ==
    rsThrown # <<>> /\ startsWith(rsThrown[1], "Segment TTS failed: ")

DoubleFailureCleansUp ==
    SynthesisFailedTwice =>
        /\ rsPc \in {"threw", "exited"}
        /\ rsDisk = {}
        /\ rsPersisted = {}

\* the parts of C18 that do not depend on the files left behind
DoubleFailureThrows ==
    SynthesisFailedTwice =>
        rsPc \in {"threw", "exited"} /\ rsResult = <<>> /\ rsPersisted = {}

\* what the unlink loop does remove: every file whose path was pushed
DoubleFailureUnlinksPushed ==
    SynthesisFailedTwice => rsDisk \cap PathSet(rsPaths) = {}

(***************************************************************************)
(* C19.  buildAlignmentChecks evaluates its five checks one after the      *)
(* other without stopping at the first failure: the codes of the reasons   *)
(* are, in the order coverage_below_threshold, duration_delta_too_high,    *)
(* empty_segment_text, stretch_ratio_too_high,                             *)
(* insufficient_clip_count_for_context, exactly those whose check fails on *)
(* the checks of the report; passed is true exactly when there is none.    *)
(***************************************************************************)
CheckOrder ==
    <<"coverage_below_threshold", "duration_delta_too_high", "empty_segment_text",
      "stretch_ratio_too_high", "insufficient_clip_count_for_context">>

\* the check named code fails on the stored checks of the report
CheckFails(report, format, code) ==
    LET checks == report.checks
        clipDriven == report.mode = "clip-driven"
        long == format \in {"5min", "11min"}
    IN CASE code = "coverage_below_threshold" ->
                clipDriven /\ checks.coverageRatio < 9800
         [] code = "duration_delta_too_high" ->
                checks.durationDeltaSec >
                    (IF clipDriven /\ ~long THEN 3500 ELSE 12500)
         [] code = "empty_segment_text" -> checks.emptySegmentCount > 0
         [] code = "stretch_ratio_too_high" ->
                clipDriven /\ checks.maxStretchRatio > 1000 * StretchLimitTenths(format)
         [] code = "insufficient_clip_count_for_context" ->
                clipDriven /\ checks.availableClipCount < checks.requiredClipCount

ReasonCodes(report) == [i \in 1..Len(report.reasons) |-> report.reasons[i].code]

AllChecksEvaluated ==
    alReport # <<>> =>
        /\ ReasonCodes(alReport[1])
               = SelectSeq(CheckOrder,
                           LAMBDA code : CheckFails(alReport[1], alArgs.format, code))
        /\ alReport[1].passed <=> (alReport[1].reasons = <<>>)

\* a report that carries the five reasons at once
AllChecksEvaluatedWitness ==
    /\ alReport # <<>>
    /\ ~alReport[1].passed
    /\ ReasonCodes(alReport[1]) = CheckOrder

(***************************************************************************)
(* C20.  In each copy of buildAlignmentChecks, duration_delta_too_high is  *)
(* reported exactly when |sum of durationSec - measured audio duration|    *)
(* exceeds 0.35 s in clip-driven short-form, and 1.25 s in scene-driven    *)
(* mode and in long-form clip-driven.                                      *)
(***************************************************************************)
\* |sum of durationSec - mergedAudioSec| in hundred-thousandths of a second
DeltaOfArgs ==
    Abs(10 * SumSeq([i \in 1..Len(alArgs.segments) |-> alArgs.segments[i].durationSec])
        - alArgs.mergedAudioSec)

DeltaLimitOfArgs ==
    IF alArgs.mode = "clip-driven" /\ alArgs.format \notin {"5min", "11min"}
    THEN 35000 ELSE 125000

DeltaReasonExact ==
    /\ alReport # <<>> =>
           (HasReason(alReport[1], "duration_delta_too_high")
                <=> DeltaOfArgs > DeltaLimitOfArgs)
    /\ alOlder # <<>> =>
           (HasReason(alOlder[1], "duration_delta_too_high")
                <=> DeltaOfArgs > DeltaLimitOfArgs)

\* what the copy of automate_shorts.ts does: the limit of the mode, on the
\* difference rounded to 4 decimals
DeltaReasonRoundedMain ==
    alReport # <<>> =>
        (HasReason(alReport[1], "duration_delta_too_high")
             <=> 10 * Round4Fine(DeltaOfArgs) > DeltaLimitOfArgs)

\* what the copy of unnamed/part_000 does: 0.35 s in every mode
DeltaReasonOlder ==
    alOlder # <<>> =>
        (HasReason(alOlder[1], "duration_delta_too_high")
             <=> Round4Fine(DeltaOfArgs) > 3500)

\* the two copies disagree on a scene-driven difference between the limits
CopiesDisagree ==
    /\ alReport # <<>> /\ alOlder # <<>>
    /\ alArgs.mode = "scene-driven"
    /\ HasReason(alOlder[1], "duration_delta_too_high")
    /\ ~HasReason(alReport[1], "duration_delta_too_high")

(***************************************************************************)
(* C21.  An attempt that finds fewer contiguous clips than the script has  *)
(* scenes, and whose synthesis succeeds, runs in clip-driven mode, gets    *)
(* insufficient_clip_count_for_context among the reasons of its report,    *)
(* and is blocked: no compositing step starts and the project does not     *)
(* become assembly_done.                                                   *)
(***************************************************************************)
FewerClipsThanScenes ==
    Len(getContiguousClipIndices(chEnv)) < Len(chEnv.script.scenes)

FewerClipsBlocked ==
    FewerClipsThanScenes =>
        /\ chDone = <<>>
        /\ chExit # 0
        /\ projStatus # "assembly_done"
        /\ chReport # <<>> =>
              /\ chMode = "clip-driven"
              /\ ~chReport[1].passed
              /\ HasReason(chReport[1], "insufficient_clip_count_for_context")
        /\ chPc \in {"decide", "render", "prepare", "captions", "mux", "meta"} =>
              chPc = "decide"

\* one clip for two scenes: the child has thrown ALIGNMENT_BLOCKED and exited
FewerClipsBlockedWitness ==
    /\ FewerClipsThanScenes
    /\ chReport # <<>>
    /\ ReasonCodes(chReport[1]) = <<"insufficient_clip_count_for_context">>
    /\ chThrown # <<>> /\ startsWith(chThrown[1], "ALIGNMENT_BLOCKED:")
    /\ chPc = "exited" /\ chExit = 1

(***************************************************************************)
(* C22.  regenerateSegmentAudio issues its speech requests one at a time   *)
(* in segment order: at most one request is in flight, the request for     *)
(* segment i+1 is issued only once segment i has completed, and a segment  *)
(* is requested at most twice.                                             *)
(***************************************************************************)
RequestsOf(i) == Cardinality({k \in 1..Len(rsLog) : rsLog[k] = i})

RequestsSequential ==
    /\ rsInFlight \in {0, 1}
    /\ rsLog # <<>> => rsLog[1] = 0
    /\ \A k \in 1..(Len(rsLog) - 1) : rsLog[k + 1] \in {rsLog[k], rsLog[k] + 1}
    /\ \A k \in 1..Len(rsLog) : rsLog[k] <= Len(rsMeasured)
    /\ \A i \in 0..(Len(rsSegments) - 1) : RequestsOf(i) <= 2

\* segment 0 requested twice, then segment 1, and the call returned
RequestsSequentialWitness ==
    /\ rsPc = "returned"
    /\ rsLog = <<0, 0, 1>>

(***************************************************************************)
(* C25.  After regenerateSegmentAudio has succeeded, the durationSec of    *)
(* every segment of the returned timeline is the duration measured on that *)
(* segment's audio file, whatever the probe returned, and never the        *)
(* estimate the segment came with.                                         *)
(***************************************************************************)
MeasuredDurationsUsed ==
    rsPc \in {"returned", "persisted"} =>
        /\ Len(rsResult) = Len(rsSegments)
        /\ \A i \in 1..Len(rsResult) : rsResult[i].durationSec = rsMeasured[i]

\* what the returned timeline holds: the measured duration when the probe
\* gave a non-zero one, floored at 0.1 s, else the estimate
MeasuredOrEstimate ==
    rsPc \in {"returned", "persisted"} =>
        /\ Len(rsResult) = Len(rsSegments) /\ Len(rsMeasured) = Len(rsSegments)
        /\ \A i \in 1..Len(rsResult) :
              rsResult[i].durationSec =
                  IF rsMeasured[i] # 0 THEN Max(MIN_SEGMENT_TICKS, rsMeasured[i])
                  ELSE Max(MIN_SEGMENT_TICKS, rsSegments[i].durationSec)

(***************************************************************************)
(* C28.  When regenerateSegmentAudio reaches the concatenation, the list   *)
(* it concatenates into audio.mp3 holds one file per segment, in segment   *)
(* order and without a duplicate, whichever first attempts failed at the   *)
(* request, the write or the probe and succeeded on the retry.             *)
(***************************************************************************)
ConcatOneFilePerSegment ==
    rsPc = "concat" =>
        rsPaths = [i \in 1..Len(rsSegments) |-> AudioSceneFile(i - 1)]

\* what the list holds: the files in segment order, each once or twice
ConcatFilesInOrder ==
    rsPc = "concat" =>
        /\ PathSet(rsPaths) = {AudioSceneFile(i) : i \in 0..(Len(rsSegments) - 1)}
        /\ \A k \in 1..(Len(rsPaths) - 1) :
              rsPaths[k + 1].index \in {rsPaths[k].index, rsPaths[k].index + 1}
        /\ Len(rsPaths) <= 2 * Len(rsSegments)

(***************************************************************************)
(* C29.  When step 3 of runProjectAfterScriptApproval completes with all   *)
(* clips present, assembly runs and the project ends in assembly_done,     *)
(* waiting_for_clips or error: the call never ends with the project in     *)
(* status audio_generated.                                                 *)
(***************************************************************************)
ApprovalEnded == apPc \in {"returned", "threw"}

ApprovalReachesAssembly ==
    ApprovalEnded =>
        projStatus \in {"assembly_done", "waiting_for_clips", "error"}

\* whenever runProjectAssembly is entered from the approval the status is
\* audio_generated, so the guard of 581 throws and no child is spawned
AssemblyGuardNeverPasses ==
    /\ apPc = "assembling" => projStatus = "audio_generated"
    /\ chPc = "off"

\* the other ends of the call leave the status they set
ApprovalOtherEnds ==
    (ApprovalEnded /\ rnPc = "off") => projStatus \in {"waiting_for_clips", "error"}

(***************************************************************************)
(* C30.  Whatever the interleaving of the POST /:projectId/continue        *)
(* requests on a project, at most one assembly attempt runs on it at a     *)
(* time: its workspace, segment map and alignment report never have two    *)
(* concurrent writers.                                                     *)
(***************************************************************************)
\* the requests whose assembly child is alive
RunningAttempts == {r \in Requests : rqPc[r] \in {"childStarted", "childWroteMap"}}

OneAttemptAtATime == Cardinality(RunningAttempts) <= 1

\* the map of one attempt next to the report of another
MixedPair ==
    /\ wsMapBy # 0 /\ wsAlignBy # 0 /\ wsMapBy # wsAlignBy
    /\ \A r \in Requests : rqPc[r] \in {"responded200", "responded400", "responded500"}

\* a request is never past a guard it took with the project in another
\* status than waiting_for_clips
GuardsHold ==
    projStatus = "audio_generated" =>
        \A r \in Requests : rqPc[r] \in {"received", "responded400"}

(***************************************************************************)
(* C23.  In every clip_segment_map.json written by an assembly attempt, in *)
(* either mode, the clipIndex of the segments are 0, 1, ..., N-1 in this   *)
(* order, the source of every segment is the mode of the map, and          *)
(* clipCount is the number of segments.                                    *)
(***************************************************************************)
SegmentMapWellFormed ==
    chMapFile # <<>> =>
        LET map == chMapFile[1]
        IN /\ \A i \in 1..Len(map.segments) : map.segments[i].clipIndex = i - 1
           /\ \A i \in 1..Len(map.segments) : map.segments[i].source = map.mode
           /\ map.clipCount = Len(map.segments)
           /\ map.mode \in Modes

\* a scene-driven map of two segments whose audio was synthesized anew
SegmentMapWellFormedWitness ==
    /\ chMapFile # <<>>
    /\ chMapFile[1].mode = "scene-driven"
    /\ Len(chMapFile[1].segments) = 2

\* a clip-driven map of two segments is written too
ClipDrivenMapWritten ==
    /\ chMapFile # <<>>
    /\ chMapFile[1].mode = "clip-driven"
    /\ Len(chMapFile[1].segments) = 2

(***************************************************************************)
(* C24.  For every segment returned by withTimeline the stored values      *)
(* satisfy endSec = startSec + durationSec, whatever the input durations,  *)
(* those with more than three decimals included.                           *)
(***************************************************************************)
EndIsStartPlusDuration ==
    tlPc \in {"done", "again"} =>
        \A i \in 1..Len(tlResult) :
            tlResult[i].endSec = tlResult[i].startSec + tlResult[i].durationSec

\* what the three roundings give: equality to within 0.001 s, and equality
\* when every input duration has at most three decimals
EndNearStartPlusDuration ==
    tlPc \in {"done", "again"} =>
        /\ \A i \in 1..Len(tlResult) :
              Abs(tlResult[i].endSec
                  - (tlResult[i].startSec + tlResult[i].durationSec)) <= 10
        /\ (\A i \in 1..Len(tlSegments) : tlSegments[i].durationSec % 10 = 0)
              => \A i \in 1..Len(tlResult) :
                    tlResult[i].endSec
                        = tlResult[i].startSec + tlResult[i].durationSec

(***************************************************************************)
(* C26.  segmentToSubChunks groups the words of each segment into cues of  *)
(* at most 4 words and drops none: for every segment with non-empty text   *)
(* (handled before the cap of cues is reached) the words of its cues, in   *)
(* order, are the words of its text, those of a trailing partial chunk     *)
(* included.                                                               *)
(***************************************************************************)
CueWordsOf(k) == WordsOfAll([i \in 1..Len(CuesOf(k)) |-> CuesOf(k)[i].text])

CaptionKeepsWords ==
    scPc = "done" =>
        \A k \in 1..Len(scSegments) :
            (Trim(scSegments[k].text) # <<>> /\ CapNotReachedBy(k))
                => /\ CueWordsOf(k) = Words(scSegments[k].text)
                   /\ \A i \in 1..Len(CuesOf(k)) :
                         Len(CuesOf(k)[i].text) <= MAX_WORDS_PER_CHUNK

\* what the cues do hold: chunks of at most 4 words that are, in order, the
\* first words of the segment; all of them when the segment lasts longer
\* than 0.5 s for each chunk
CaptionKeepsPrefix ==
    scPc = "done" =>
        \A k \in 1..Len(scSegments) :
            (Trim(scSegments[k].text) # <<>> /\ CapNotReachedBy(k))
                => LET words == Words(scSegments[k].text)
                       kept == CueWordsOf(k)
                       seg == scSegments[k]
                   IN /\ Len(kept) <= Len(words)
                      /\ kept = SubSeq(words, 1, Len(kept))
                      /\ \A i \in 1..Len(CuesOf(k)) :
                            Len(CuesOf(k)[i].text) <= MAX_WORDS_PER_CHUNK
                      /\ (seg.endSec - seg.startSec
                             > MIN_CHUNK_DURATION_SEC
                                  * CeilDiv(Len(words), MAX_WORDS_PER_CHUNK))
                            => kept = words

(***************************************************************************)
(* C27.  The number of cues returned by segmentToSubChunks never exceeds   *)
(* the cap (100 by default), whatever the segment list; once the cap is    *)
(* reached no later segment receives a cue, and reaching the cap raises no *)
(* error: the call returns the cues emitted so far.                        *)
(***************************************************************************)
\* the segment the cue belongs to
CueSegment(c) == c.text[1].id \div SegIdBase

CapReached == Len(scResult) = MAX_SUBTITLE_CHUNKS

CueCapHolds ==
    scPc = "done" =>
        /\ Len(scResult) <= MAX_SUBTITLE_CHUNKS
        /\ \A i, j \in 1..Len(scResult) :
              i < j => CueSegment(scResult[i]) <= CueSegment(scResult[j])
        /\ CapReached =>
              \A k \in 1..Len(scSegments) :
                 k > CueSegment(scResult[MAX_SUBTITLE_CHUNKS]) => CuesOf(k) = <<>>

\* the cap is reached and a later segment with text is left without a cue
CueCapHoldsWitness ==
    /\ scPc = "done"
    /\ CapReached
    /\ \E k \in 1..Len(scSegments) :
          /\ k > CueSegment(scResult[MAX_SUBTITLE_CHUNKS])
          /\ Trim(scSegments[k].text) # <<>>
          /\ CuesOf(k) = <<>>

====
